---- MODULE Spec2Model ----
(***************************************************************************)
(* A model of py-bridge/fetch_fundamentals.py: the resolution of a stock's *)
(* fundamentals from the statement tables, the market snapshot and the     *)
(* HTTP quote, followed by scoring and the risk tier.                      *)
(*                                                                         *)
(* Numbers.  A Python float is modelled by its exact value: the rational   *)
(* [n |-> numerator, d |-> denominator] in lowest terms that the float     *)
(* equals (1.5 is [3, 2], 0.1 is [3602879701896397, 36028797018963968]);   *)
(* the records with d = 0 are inf, -inf, NaN and the Python value None.    *)
(* The arithmetic rounds every result to the nearest float, overflows to   *)
(* inf and keeps the sign of a zero, as Python's does; of an operand that  *)
(* is a rational but no float it takes the float nearest to it.            *)
(*                                                                         *)
(* Text.  A Python str is modelled as the sequence of the code points of   *)
(* its characters (the comment above a definition gives the text it        *)
(* spells).                                                                *)
(***************************************************************************)
EXTENDS Integers, Sequences, FiniteSets, TLC

VARIABLES
  stdin,        \* what json.loads makes of standard input, until main read it
  pc,           \* position of main(): which phase runs next
  base_symbol,  \* main's local base_symbol
  em_symbol,    \* main's local em_symbol
  result,       \* main's dict result
  df,           \* main's local df (financial abstract), while the statement phase's locals are live
  bs_row,       \* main's local bs_row
  is_row,       \* main's local is_row
  revenue_val,  \* main's local revenue_val
  rec,          \* fill_from_spot's local rec (the matched snapshot row)
  calls,        \* the external calls made so far, in order
  stdout        \* the records printed so far

vars == << stdin, pc, base_symbol, em_symbol, result, df, bs_row, is_row,
           revenue_val, rec, calls, stdout >>

----------------------------------------------------------------------------
(* Python's float arithmetic over the exact values of the floats.  A      *)
(* finite float is [n, d]: the rational n/d in lowest terms, d a power of  *)
(* two; 0.0 is [0, 1] and -0.0 is [0, -1].  With d = 0 the record is inf   *)
(* (n = 1), -inf (n = -1) or NaN (n = 2).  [0, 0] is None.  Every result   *)
(* of the arithmetic is rounded to the nearest float (Float).              *)

Abs(x) == IF x < 0 THEN -x ELSE x

RECURSIVE GCD(_, _)
GCD(a, b) == IF b = 0 THEN a ELSE GCD(b, a % b)

\* the rational n/d (d # 0) in lowest terms with a positive denominator
Q(n, d) ==
  LET g == GCD(Abs(n), Abs(d))
      s == IF d < 0 THEN -1 ELSE 1
  IN  [n |-> (s * n) \div g, d |-> (s * d) \div g]

Num(k) == [n |-> k, d |-> 1]

None == [n |-> 0, d |-> 0]

\* float("nan"), what inf - inf, inf / inf and inf * 0 give
NaN == [n |-> 2, d |-> 0]

IsNone(x) == x.d = 0 /\ x.n = 0

\* -1 for a float with the sign bit set (-0.0 and -inf among them), else 1
Sign(x) == IF x.n < 0 \/ (x.n = 0 /\ x.d < 0) THEN -1 ELSE 1

\* abs(a)
QAbs(a) == [n |-> Abs(a.n), d |-> Abs(a.d)]

\* b^k for an integer k >= 0
RECURSIVE Pow(_, _)
Pow(b, k) ==
  IF k = 0 THEN 1
  ELSE IF k = 1 THEN b
  ELSE IF k % 2 = 0 THEN Pow(b * b, k \div 2)
  ELSE b * Pow(b * b, k \div 2)

\* the rational x * b^k, for any integer k
Scale(x, b, k) ==
  IF k >= 0 THEN Q(x.n * Pow(b, k), x.d) ELSE Q(x.n, x.d * Pow(b, -k))

\* the integer nearest to the rational s >= 0, the even one of two
Nearest(s) ==
  IF \/ 2 * (s.n % s.d) > s.d
     \/ 2 * (s.n % s.d) = s.d /\ (s.n \div s.d) % 2 = 1
  THEN (s.n \div s.d) + 1
  ELSE s.n \div s.d

\* the k with b^k <= x < b^(k+1) for a rational x > 0, searched from k on
RECURSIVE Order(_, _, _)
Order(x, b, k) ==
  LET At(y) == IF y.n < y.d THEN Order(x, b, k - 1)
               ELSE IF y.n >= b * y.d THEN Order(x, b, k + 1)
               ELSE k
  IN  At(Scale(x, b, -k))

\* the number of a mantissa of `bits` bits nearest to the rational x > 0,
\* the one of even mantissa of two
Double(x, bits) ==
  LET At(k) == Scale(Num(Nearest(Scale(x, 2, bits - 1 - k))), 2, k + 1 - bits)
  IN  At(Order(x, 2, 0))

\* the rational x is a multiple of 2^-30 of a numerator within 31 bits: a
\* float as it is (a mantissa within 53 bits, an exponent far above -1022)
Fits(x) == x.d > 0 /\ 1073741824 % x.d = 0 /\ Abs(x.n) <= 2147483647

\* The float nearest to the rational x, as the arithmetic rounds a result and
\* float() a number: the nearest number of a 53-bit mantissa (the one of even
\* mantissa of two), inf where that is 2^1024 or more, the nearest multiple
\* of 2^-1074 below 2^-1022 (0.0 with the sign of x where that is 0).  A
\* float is left as it is.
Float(x) ==
  LET Signed(y) ==
        IF y.n >= Pow(2, 1024) * y.d THEN [n |-> Sign(x), d |-> 0]
        ELSE IF y.n = 0 THEN [n |-> 0, d |-> Sign(x)]
        ELSE [n |-> Sign(x) * y.n, d |-> y.d]
  IN  IF x.d = 0 \/ x.n = 0 \/ Fits(x) THEN x
      ELSE IF Abs(x.n) * Pow(2, 1022) < x.d
      THEN Signed(Scale(Num(Nearest(Scale(QAbs(x), 2, 1074))), 2, -1074))
      ELSE Signed(Double(QAbs(x), 53))

\* a * b: the float nearest to the product of the floats x and y that a and
\* b are, a zero with the product of their signs
QMul(a, b) ==
  LET Of(x, y) ==
        IF x = NaN \/ y = NaN THEN NaN
        ELSE IF x.d = 0 \/ y.d = 0
        THEN IF x.n = 0 \/ y.n = 0 THEN NaN
             ELSE [n |-> Sign(x) * Sign(y), d |-> 0]
        ELSE IF x.n = 0 \/ y.n = 0 THEN [n |-> 0, d |-> Sign(x) * Sign(y)]
        ELSE Float(Q(x.n * y.n, x.d * y.d))
  IN  Of(Float(a), Float(b))

\* a / b for b # 0 (a zero divisor raises ZeroDivisionError: no caller
\* divides by one): the float nearest to the quotient of the floats
QDiv(a, b) ==
  LET Of(x, y) ==
        IF x = NaN \/ y = NaN THEN NaN
        ELSE IF x.d = 0
        THEN IF y.d = 0 THEN NaN ELSE [n |-> Sign(x) * Sign(y), d |-> 0]
        ELSE IF y.d = 0 \/ x.n = 0 THEN [n |-> 0, d |-> Sign(x) * Sign(y)]
        ELSE Float(Q(x.n * y.d, x.d * y.n))
  IN  Of(Float(a), Float(b))

\* a + b: the float nearest to the sum of the floats; a sum that is zero is
\* 0.0, unless both are -0.0
QAdd(a, b) ==
  LET Of(x, y) ==
        IF x = NaN \/ y = NaN THEN NaN
        ELSE IF x.d = 0 THEN (IF y.d = 0 /\ y # x THEN NaN ELSE x)
        ELSE IF y.d = 0 THEN y
        ELSE IF x.n = 0
        THEN (IF y.n = 0 /\ Sign(x) # Sign(y) THEN Num(0) ELSE y)
        ELSE IF y.n = 0 THEN x
        ELSE Float(Q(x.n * y.d + y.n * x.d, x.d * y.d))
  IN  Of(Float(a), Float(b))

\* a - b, which is a + (-b)
QSub(a, b) ==
  IF b = NaN THEN NaN
  ELSE QAdd(a, [n |-> -b.n, d |-> IF b.n = 0 THEN -b.d ELSE b.d])

\* a < b: never with NaN, and -0.0 is not below 0.0
QLt(a, b) ==
  IF a = NaN \/ b = NaN THEN FALSE
  ELSE IF a.d = 0 THEN a.n < 0 /\ b # a
  ELSE IF b.d = 0 THEN b.n > 0
  ELSE a.n * Abs(b.d) < b.n * Abs(a.d)

\* x < c for the float x and the float c that a decimal literal r of the
\* source denotes, r being no float itself and the numerator of c beyond 31
\* bits (1.2, 0.1).  c is the float nearest to r and none lies between the
\* two, so x < c exactly when x < r and x is not c.
BelowLiteral(x, r) == QLt(x, r) /\ (Fits(x) \/ x # Float(r))

\* x > c, likewise
AboveLiteral(x, r) == QLt(r, x) /\ (Fits(x) \/ x # Float(r))

\* Python truthiness of an Optional[float]: neither None nor 0.0
Truthy(x) == ~IsNone(x) /\ x.n # 0

\* x == 0 for a float x
IsZero(x) == ~IsNone(x) /\ x.n = 0

----------------------------------------------------------------------------
(* Text: str.lower(), str.strip(), the order of str and float(str), over   *)
(* code points.  The tables are those of Unicode 14.0.                     *)

\* c lies in the run <<first, last, ...>>
InRange(c, run) == c >= run[1] /\ c <= run[2]

\* the runs <<first, last, step, delta>> of the characters c whose lower
\* case is the one character chr(ord(c) + delta)
LowerRuns ==
  <<
     <<65, 90, 1, 32>>, <<192, 214, 1, 32>>, <<216, 222, 1, 32>>, <<256, 302, 2, 1>>,
     <<306, 310, 2, 1>>, <<313, 327, 2, 1>>, <<330, 374, 2, 1>>, <<376, 376, 1, -121>>,
     <<377, 381, 2, 1>>, <<385, 385, 1, 210>>, <<386, 388, 2, 1>>, <<390, 390, 1, 206>>,
     <<391, 391, 1, 1>>, <<393, 394, 1, 205>>, <<395, 395, 1, 1>>, <<398, 398, 1, 79>>,
     <<399, 399, 1, 202>>, <<400, 400, 1, 203>>, <<401, 401, 1, 1>>, <<403, 403, 1, 205>>,
     <<404, 404, 1, 207>>, <<406, 406, 1, 211>>, <<407, 407, 1, 209>>, <<408, 408, 1, 1>>,
     <<412, 412, 1, 211>>, <<413, 413, 1, 213>>, <<415, 415, 1, 214>>, <<416, 420, 2, 1>>,
     <<422, 422, 1, 218>>, <<423, 423, 1, 1>>, <<425, 425, 1, 218>>, <<428, 428, 1, 1>>,
     <<430, 430, 1, 218>>, <<431, 431, 1, 1>>, <<433, 434, 1, 217>>, <<435, 437, 2, 1>>,
     <<439, 439, 1, 219>>, <<440, 440, 1, 1>>, <<444, 444, 1, 1>>, <<452, 452, 1, 2>>,
     <<453, 453, 1, 1>>, <<455, 455, 1, 2>>, <<456, 456, 1, 1>>, <<458, 458, 1, 2>>,
     <<459, 475, 2, 1>>, <<478, 494, 2, 1>>, <<497, 497, 1, 2>>, <<498, 500, 2, 1>>,
     <<502, 502, 1, -97>>, <<503, 503, 1, -56>>, <<504, 542, 2, 1>>, <<544, 544, 1, -130>>,
     <<546, 562, 2, 1>>, <<570, 570, 1, 10795>>, <<571, 571, 1, 1>>, <<573, 573, 1, -163>>,
     <<574, 574, 1, 10792>>, <<577, 577, 1, 1>>, <<579, 579, 1, -195>>, <<580, 580, 1, 69>>,
     <<581, 581, 1, 71>>, <<582, 590, 2, 1>>, <<880, 882, 2, 1>>, <<886, 886, 1, 1>>,
     <<895, 895, 1, 116>>, <<902, 902, 1, 38>>, <<904, 906, 1, 37>>, <<908, 908, 1, 64>>,
     <<910, 911, 1, 63>>, <<913, 929, 1, 32>>, <<931, 939, 1, 32>>, <<975, 975, 1, 8>>,
     <<984, 1006, 2, 1>>, <<1012, 1012, 1, -60>>, <<1015, 1015, 1, 1>>, <<1017, 1017, 1, -7>>,
     <<1018, 1018, 1, 1>>, <<1021, 1023, 1, -130>>, <<1024, 1039, 1, 80>>, <<1040, 1071, 1, 32>>,
     <<1120, 1152, 2, 1>>, <<1162, 1214, 2, 1>>, <<1216, 1216, 1, 15>>, <<1217, 1229, 2, 1>>,
     <<1232, 1326, 2, 1>>, <<1329, 1366, 1, 48>>, <<4256, 4293, 1, 7264>>, <<4295, 4295, 1, 7264>>,
     <<4301, 4301, 1, 7264>>, <<5024, 5103, 1, 38864>>, <<5104, 5109, 1, 8>>, <<7312, 7354, 1, -3008>>,
     <<7357, 7359, 1, -3008>>, <<7680, 7828, 2, 1>>, <<7838, 7838, 1, -7615>>, <<7840, 7934, 2, 1>>,
     <<7944, 7951, 1, -8>>, <<7960, 7965, 1, -8>>, <<7976, 7983, 1, -8>>, <<7992, 7999, 1, -8>>,
     <<8008, 8013, 1, -8>>, <<8025, 8031, 2, -8>>, <<8040, 8047, 1, -8>>, <<8072, 8079, 1, -8>>,
     <<8088, 8095, 1, -8>>, <<8104, 8111, 1, -8>>, <<8120, 8121, 1, -8>>, <<8122, 8123, 1, -74>>,
     <<8124, 8124, 1, -9>>, <<8136, 8139, 1, -86>>, <<8140, 8140, 1, -9>>, <<8152, 8153, 1, -8>>,
     <<8154, 8155, 1, -100>>, <<8168, 8169, 1, -8>>, <<8170, 8171, 1, -112>>, <<8172, 8172, 1, -7>>,
     <<8184, 8185, 1, -128>>, <<8186, 8187, 1, -126>>, <<8188, 8188, 1, -9>>, <<8486, 8486, 1, -7517>>,
     <<8490, 8490, 1, -8383>>, <<8491, 8491, 1, -8262>>, <<8498, 8498, 1, 28>>, <<8544, 8559, 1, 16>>,
     <<8579, 8579, 1, 1>>, <<9398, 9423, 1, 26>>, <<11264, 11311, 1, 48>>, <<11360, 11360, 1, 1>>,
     <<11362, 11362, 1, -10743>>, <<11363, 11363, 1, -3814>>, <<11364, 11364, 1, -10727>>, <<11367, 11371, 2, 1>>,
     <<11373, 11373, 1, -10780>>, <<11374, 11374, 1, -10749>>, <<11375, 11375, 1, -10783>>, <<11376, 11376, 1, -10782>>,
     <<11378, 11378, 1, 1>>, <<11381, 11381, 1, 1>>, <<11390, 11391, 1, -10815>>, <<11392, 11490, 2, 1>>,
     <<11499, 11501, 2, 1>>, <<11506, 11506, 1, 1>>, <<42560, 42604, 2, 1>>, <<42624, 42650, 2, 1>>,
     <<42786, 42798, 2, 1>>, <<42802, 42862, 2, 1>>, <<42873, 42875, 2, 1>>, <<42877, 42877, 1, -35332>>,
     <<42878, 42886, 2, 1>>, <<42891, 42891, 1, 1>>, <<42893, 42893, 1, -42280>>, <<42896, 42898, 2, 1>>,
     <<42902, 42920, 2, 1>>, <<42922, 42922, 1, -42308>>, <<42923, 42923, 1, -42319>>, <<42924, 42924, 1, -42315>>,
     <<42925, 42925, 1, -42305>>, <<42926, 42926, 1, -42308>>, <<42928, 42928, 1, -42258>>, <<42929, 42929, 1, -42282>>,
     <<42930, 42930, 1, -42261>>, <<42931, 42931, 1, 928>>, <<42932, 42946, 2, 1>>, <<42948, 42948, 1, -48>>,
     <<42949, 42949, 1, -42307>>, <<42950, 42950, 1, -35384>>, <<42951, 42953, 2, 1>>, <<42960, 42960, 1, 1>>,
     <<42966, 42968, 2, 1>>, <<42997, 42997, 1, 1>>, <<65313, 65338, 1, 32>>, <<66560, 66599, 1, 40>>,
     <<66736, 66771, 1, 40>>, <<66928, 66938, 1, 39>>, <<66940, 66954, 1, 39>>, <<66956, 66962, 1, 39>>,
     <<66964, 66965, 1, 39>>, <<68736, 68786, 1, 64>>, <<71840, 71871, 1, 32>>, <<93760, 93791, 1, 32>>,
     <<125184, 125217, 1, 34>>
  >>

\* the runs <<first, last>> of the cased characters that are not
\* case-ignorable
CasedRuns ==
  <<
     <<65, 90>>, <<97, 122>>, <<170, 170>>, <<181, 181>>, <<186, 186>>,
     <<192, 214>>, <<216, 246>>, <<248, 442>>, <<444, 447>>, <<452, 659>>,
     <<661, 687>>, <<880, 883>>, <<886, 887>>, <<891, 893>>, <<895, 895>>,
     <<902, 902>>, <<904, 906>>, <<908, 908>>, <<910, 929>>, <<931, 1013>>,
     <<1015, 1153>>, <<1162, 1327>>, <<1329, 1366>>, <<1376, 1416>>, <<4256, 4293>>,
     <<4295, 4295>>, <<4301, 4301>>, <<4304, 4346>>, <<4349, 4351>>, <<5024, 5109>>,
     <<5112, 5117>>, <<7296, 7304>>, <<7312, 7354>>, <<7357, 7359>>, <<7424, 7467>>,
     <<7531, 7543>>, <<7545, 7578>>, <<7680, 7957>>, <<7960, 7965>>, <<7968, 8005>>,
     <<8008, 8013>>, <<8016, 8023>>, <<8025, 8025>>, <<8027, 8027>>, <<8029, 8029>>,
     <<8031, 8061>>, <<8064, 8116>>, <<8118, 8124>>, <<8126, 8126>>, <<8130, 8132>>,
     <<8134, 8140>>, <<8144, 8147>>, <<8150, 8155>>, <<8160, 8172>>, <<8178, 8180>>,
     <<8182, 8188>>, <<8450, 8450>>, <<8455, 8455>>, <<8458, 8467>>, <<8469, 8469>>,
     <<8473, 8477>>, <<8484, 8484>>, <<8486, 8486>>, <<8488, 8488>>, <<8490, 8493>>,
     <<8495, 8500>>, <<8505, 8505>>, <<8508, 8511>>, <<8517, 8521>>, <<8526, 8526>>,
     <<8544, 8575>>, <<8579, 8580>>, <<9398, 9449>>, <<11264, 11387>>, <<11390, 11492>>,
     <<11499, 11502>>, <<11506, 11507>>, <<11520, 11557>>, <<11559, 11559>>, <<11565, 11565>>,
     <<42560, 42605>>, <<42624, 42651>>, <<42786, 42863>>, <<42865, 42887>>, <<42891, 42894>>,
     <<42896, 42954>>, <<42960, 42961>>, <<42963, 42963>>, <<42965, 42969>>, <<42997, 42998>>,
     <<43002, 43002>>, <<43824, 43866>>, <<43872, 43880>>, <<43888, 43967>>, <<64256, 64262>>,
     <<64275, 64279>>, <<65313, 65338>>, <<65345, 65370>>, <<66560, 66639>>, <<66736, 66771>>,
     <<66776, 66811>>, <<66928, 66938>>, <<66940, 66954>>, <<66956, 66962>>, <<66964, 66965>>,
     <<66967, 66977>>, <<66979, 66993>>, <<66995, 67001>>, <<67003, 67004>>, <<68736, 68786>>,
     <<68800, 68850>>, <<71840, 71903>>, <<93760, 93823>>, <<119808, 119892>>, <<119894, 119964>>,
     <<119966, 119967>>, <<119970, 119970>>, <<119973, 119974>>, <<119977, 119980>>, <<119982, 119993>>,
     <<119995, 119995>>, <<119997, 120003>>, <<120005, 120069>>, <<120071, 120074>>, <<120077, 120084>>,
     <<120086, 120092>>, <<120094, 120121>>, <<120123, 120126>>, <<120128, 120132>>, <<120134, 120134>>,
     <<120138, 120144>>, <<120146, 120485>>, <<120488, 120512>>, <<120514, 120538>>, <<120540, 120570>>,
     <<120572, 120596>>, <<120598, 120628>>, <<120630, 120654>>, <<120656, 120686>>, <<120688, 120712>>,
     <<120714, 120744>>, <<120746, 120770>>, <<120772, 120779>>, <<122624, 122633>>, <<122635, 122654>>,
     <<125184, 125251>>, <<127280, 127305>>, <<127312, 127337>>, <<127344, 127369>>
  >>

\* the runs <<first, last>> of the case-ignorable characters
CaseIgnorableRuns ==
  <<
     <<39, 39>>, <<46, 46>>, <<58, 58>>, <<94, 94>>, <<96, 96>>,
     <<168, 168>>, <<173, 173>>, <<175, 175>>, <<180, 180>>, <<183, 184>>,
     <<688, 879>>, <<884, 885>>, <<890, 890>>, <<900, 901>>, <<903, 903>>,
     <<1155, 1161>>, <<1369, 1369>>, <<1375, 1375>>, <<1425, 1469>>, <<1471, 1471>>,
     <<1473, 1474>>, <<1476, 1477>>, <<1479, 1479>>, <<1524, 1524>>, <<1536, 1541>>,
     <<1552, 1562>>, <<1564, 1564>>, <<1600, 1600>>, <<1611, 1631>>, <<1648, 1648>>,
     <<1750, 1757>>, <<1759, 1768>>, <<1770, 1773>>, <<1807, 1807>>, <<1809, 1809>>,
     <<1840, 1866>>, <<1958, 1968>>, <<2027, 2037>>, <<2042, 2042>>, <<2045, 2045>>,
     <<2070, 2093>>, <<2137, 2139>>, <<2184, 2184>>, <<2192, 2193>>, <<2200, 2207>>,
     <<2249, 2306>>, <<2362, 2362>>, <<2364, 2364>>, <<2369, 2376>>, <<2381, 2381>>,
     <<2385, 2391>>, <<2402, 2403>>, <<2417, 2417>>, <<2433, 2433>>, <<2492, 2492>>,
     <<2497, 2500>>, <<2509, 2509>>, <<2530, 2531>>, <<2558, 2558>>, <<2561, 2562>>,
     <<2620, 2620>>, <<2625, 2626>>, <<2631, 2632>>, <<2635, 2637>>, <<2641, 2641>>,
     <<2672, 2673>>, <<2677, 2677>>, <<2689, 2690>>, <<2748, 2748>>, <<2753, 2757>>,
     <<2759, 2760>>, <<2765, 2765>>, <<2786, 2787>>, <<2810, 2815>>, <<2817, 2817>>,
     <<2876, 2876>>, <<2879, 2879>>, <<2881, 2884>>, <<2893, 2893>>, <<2901, 2902>>,
     <<2914, 2915>>, <<2946, 2946>>, <<3008, 3008>>, <<3021, 3021>>, <<3072, 3072>>,
     <<3076, 3076>>, <<3132, 3132>>, <<3134, 3136>>, <<3142, 3144>>, <<3146, 3149>>,
     <<3157, 3158>>, <<3170, 3171>>, <<3201, 3201>>, <<3260, 3260>>, <<3263, 3263>>,
     <<3270, 3270>>, <<3276, 3277>>, <<3298, 3299>>, <<3328, 3329>>, <<3387, 3388>>,
     <<3393, 3396>>, <<3405, 3405>>, <<3426, 3427>>, <<3457, 3457>>, <<3530, 3530>>,
     <<3538, 3540>>, <<3542, 3542>>, <<3633, 3633>>, <<3636, 3642>>, <<3654, 3662>>,
     <<3761, 3761>>, <<3764, 3772>>, <<3782, 3782>>, <<3784, 3789>>, <<3864, 3865>>,
     <<3893, 3893>>, <<3895, 3895>>, <<3897, 3897>>, <<3953, 3966>>, <<3968, 3972>>,
     <<3974, 3975>>, <<3981, 3991>>, <<3993, 4028>>, <<4038, 4038>>, <<4141, 4144>>,
     <<4146, 4151>>, <<4153, 4154>>, <<4157, 4158>>, <<4184, 4185>>, <<4190, 4192>>,
     <<4209, 4212>>, <<4226, 4226>>, <<4229, 4230>>, <<4237, 4237>>, <<4253, 4253>>,
     <<4348, 4348>>, <<4957, 4959>>, <<5906, 5908>>, <<5938, 5939>>, <<5970, 5971>>,
     <<6002, 6003>>, <<6068, 6069>>, <<6071, 6077>>, <<6086, 6086>>, <<6089, 6099>>,
     <<6103, 6103>>, <<6109, 6109>>, <<6155, 6159>>, <<6211, 6211>>, <<6277, 6278>>,
     <<6313, 6313>>, <<6432, 6434>>, <<6439, 6440>>, <<6450, 6450>>, <<6457, 6459>>,
     <<6679, 6680>>, <<6683, 6683>>, <<6742, 6742>>, <<6744, 6750>>, <<6752, 6752>>,
     <<6754, 6754>>, <<6757, 6764>>, <<6771, 6780>>, <<6783, 6783>>, <<6823, 6823>>,
     <<6832, 6862>>, <<6912, 6915>>, <<6964, 6964>>, <<6966, 6970>>, <<6972, 6972>>,
     <<6978, 6978>>, <<7019, 7027>>, <<7040, 7041>>, <<7074, 7077>>, <<7080, 7081>>,
     <<7083, 7085>>, <<7142, 7142>>, <<7144, 7145>>, <<7149, 7149>>, <<7151, 7153>>,
     <<7212, 7219>>, <<7222, 7223>>, <<7288, 7293>>, <<7376, 7378>>, <<7380, 7392>>,
     <<7394, 7400>>, <<7405, 7405>>, <<7412, 7412>>, <<7416, 7417>>, <<7468, 7530>>,
     <<7544, 7544>>, <<7579, 7679>>, <<8125, 8125>>, <<8127, 8129>>, <<8141, 8143>>,
     <<8157, 8159>>, <<8173, 8175>>, <<8189, 8190>>, <<8203, 8207>>, <<8216, 8217>>,
     <<8228, 8228>>, <<8231, 8231>>, <<8234, 8238>>, <<8288, 8292>>, <<8294, 8303>>,
     <<8305, 8305>>, <<8319, 8319>>, <<8336, 8348>>, <<8400, 8432>>, <<11388, 11389>>,
     <<11503, 11505>>, <<11631, 11631>>, <<11647, 11647>>, <<11744, 11775>>, <<11823, 11823>>,
     <<12293, 12293>>, <<12330, 12333>>, <<12337, 12341>>, <<12347, 12347>>, <<12441, 12446>>,
     <<12540, 12542>>, <<40981, 40981>>, <<42232, 42237>>, <<42508, 42508>>, <<42607, 42610>>,
     <<42612, 42621>>, <<42623, 42623>>, <<42652, 42655>>, <<42736, 42737>>, <<42752, 42785>>,
     <<42864, 42864>>, <<42888, 42890>>, <<42994, 42996>>, <<43000, 43001>>, <<43010, 43010>>,
     <<43014, 43014>>, <<43019, 43019>>, <<43045, 43046>>, <<43052, 43052>>, <<43204, 43205>>,
     <<43232, 43249>>, <<43263, 43263>>, <<43302, 43309>>, <<43335, 43345>>, <<43392, 43394>>,
     <<43443, 43443>>, <<43446, 43449>>, <<43452, 43453>>, <<43471, 43471>>, <<43493, 43494>>,
     <<43561, 43566>>, <<43569, 43570>>, <<43573, 43574>>, <<43587, 43587>>, <<43596, 43596>>,
     <<43632, 43632>>, <<43644, 43644>>, <<43696, 43696>>, <<43698, 43700>>, <<43703, 43704>>,
     <<43710, 43711>>, <<43713, 43713>>, <<43741, 43741>>, <<43756, 43757>>, <<43763, 43764>>,
     <<43766, 43766>>, <<43867, 43871>>, <<43881, 43883>>, <<44005, 44005>>, <<44008, 44008>>,
     <<44013, 44013>>, <<64286, 64286>>, <<64434, 64450>>, <<65024, 65039>>, <<65043, 65043>>,
     <<65056, 65071>>, <<65106, 65106>>, <<65109, 65109>>, <<65279, 65279>>, <<65287, 65287>>,
     <<65294, 65294>>, <<65306, 65306>>, <<65342, 65342>>, <<65344, 65344>>, <<65392, 65392>>,
     <<65438, 65439>>, <<65507, 65507>>, <<65529, 65531>>, <<66045, 66045>>, <<66272, 66272>>,
     <<66422, 66426>>, <<67456, 67461>>, <<67463, 67504>>, <<67506, 67514>>, <<68097, 68099>>,
     <<68101, 68102>>, <<68108, 68111>>, <<68152, 68154>>, <<68159, 68159>>, <<68325, 68326>>,
     <<68900, 68903>>, <<69291, 69292>>, <<69446, 69456>>, <<69506, 69509>>, <<69633, 69633>>,
     <<69688, 69702>>, <<69744, 69744>>, <<69747, 69748>>, <<69759, 69761>>, <<69811, 69814>>,
     <<69817, 69818>>, <<69821, 69821>>, <<69826, 69826>>, <<69837, 69837>>, <<69888, 69890>>,
     <<69927, 69931>>, <<69933, 69940>>, <<70003, 70003>>, <<70016, 70017>>, <<70070, 70078>>,
     <<70089, 70092>>, <<70095, 70095>>, <<70191, 70193>>, <<70196, 70196>>, <<70198, 70199>>,
     <<70206, 70206>>, <<70367, 70367>>, <<70371, 70378>>, <<70400, 70401>>, <<70459, 70460>>,
     <<70464, 70464>>, <<70502, 70508>>, <<70512, 70516>>, <<70712, 70719>>, <<70722, 70724>>,
     <<70726, 70726>>, <<70750, 70750>>, <<70835, 70840>>, <<70842, 70842>>, <<70847, 70848>>,
     <<70850, 70851>>, <<71090, 71093>>, <<71100, 71101>>, <<71103, 71104>>, <<71132, 71133>>,
     <<71219, 71226>>, <<71229, 71229>>, <<71231, 71232>>, <<71339, 71339>>, <<71341, 71341>>,
     <<71344, 71349>>, <<71351, 71351>>, <<71453, 71455>>, <<71458, 71461>>, <<71463, 71467>>,
     <<71727, 71735>>, <<71737, 71738>>, <<71995, 71996>>, <<71998, 71998>>, <<72003, 72003>>,
     <<72148, 72151>>, <<72154, 72155>>, <<72160, 72160>>, <<72193, 72202>>, <<72243, 72248>>,
     <<72251, 72254>>, <<72263, 72263>>, <<72273, 72278>>, <<72281, 72283>>, <<72330, 72342>>,
     <<72344, 72345>>, <<72752, 72758>>, <<72760, 72765>>, <<72767, 72767>>, <<72850, 72871>>,
     <<72874, 72880>>, <<72882, 72883>>, <<72885, 72886>>, <<73009, 73014>>, <<73018, 73018>>,
     <<73020, 73021>>, <<73023, 73029>>, <<73031, 73031>>, <<73104, 73105>>, <<73109, 73109>>,
     <<73111, 73111>>, <<73459, 73460>>, <<78896, 78904>>, <<92912, 92916>>, <<92976, 92982>>,
     <<92992, 92995>>, <<94031, 94031>>, <<94095, 94111>>, <<94176, 94177>>, <<94179, 94180>>,
     <<110576, 110579>>, <<110581, 110587>>, <<110589, 110590>>, <<113821, 113822>>, <<113824, 113827>>,
     <<118528, 118573>>, <<118576, 118598>>, <<119143, 119145>>, <<119155, 119170>>, <<119173, 119179>>,
     <<119210, 119213>>, <<119362, 119364>>, <<121344, 121398>>, <<121403, 121452>>, <<121461, 121461>>,
     <<121476, 121476>>, <<121499, 121503>>, <<121505, 121519>>, <<122880, 122886>>, <<122888, 122904>>,
     <<122907, 122913>>, <<122915, 122916>>, <<122918, 122922>>, <<123184, 123197>>, <<123566, 123566>>,
     <<123628, 123631>>, <<125136, 125142>>, <<125252, 125259>>, <<127995, 127999>>, <<917505, 917505>>,
     <<917536, 917631>>, <<917760, 917999>>
  >>

\* the runs <<first, last>> of the decimal digits, each run from a digit
\* zero and a multiple of ten long
DigitRuns ==
  <<
     <<48, 57>>, <<1632, 1641>>, <<1776, 1785>>, <<1984, 1993>>, <<2406, 2415>>,
     <<2534, 2543>>, <<2662, 2671>>, <<2790, 2799>>, <<2918, 2927>>, <<3046, 3055>>,
     <<3174, 3183>>, <<3302, 3311>>, <<3430, 3439>>, <<3558, 3567>>, <<3664, 3673>>,
     <<3792, 3801>>, <<3872, 3881>>, <<4160, 4169>>, <<4240, 4249>>, <<6112, 6121>>,
     <<6160, 6169>>, <<6470, 6479>>, <<6608, 6617>>, <<6784, 6793>>, <<6800, 6809>>,
     <<6992, 7001>>, <<7088, 7097>>, <<7232, 7241>>, <<7248, 7257>>, <<42528, 42537>>,
     <<43216, 43225>>, <<43264, 43273>>, <<43472, 43481>>, <<43504, 43513>>, <<43600, 43609>>,
     <<44016, 44025>>, <<65296, 65305>>, <<66720, 66729>>, <<68912, 68921>>, <<69734, 69743>>,
     <<69872, 69881>>, <<69942, 69951>>, <<70096, 70105>>, <<70384, 70393>>, <<70736, 70745>>,
     <<70864, 70873>>, <<71248, 71257>>, <<71360, 71369>>, <<71472, 71481>>, <<71904, 71913>>,
     <<72016, 72025>>, <<72784, 72793>>, <<73040, 73049>>, <<73120, 73129>>, <<92768, 92777>>,
     <<92864, 92873>>, <<93008, 93017>>, <<120782, 120831>>, <<123200, 123209>>, <<123632, 123641>>,
     <<125264, 125273>>, <<130032, 130041>>
  >>

\* c lies in the run <<first, last, step, delta>> of LowerRuns
InLowerRun(c, run) == InRange(c, run) /\ (c - run[1]) % run[3] = 0

\* c is cased, c being not case-ignorable
IsCased(c) == \E k \in 1..Len(CasedRuns) : InRange(c, CasedRuns[k])

IsCaseIgnorable(c) ==
  \E k \in 1..Len(CaseIgnorableRuns) : InRange(c, CaseIgnorableRuns[k])

\* the lower case of the character c, for every c that str.lower() maps to
\* one character whatever stands around it: every c but U+0130 and the
\* capital sigma.  (The runs hold nothing below U+0041, nothing from U+005B
\* to U+00BF and nothing from U+2CF3 to U+A63F.)
LowerChar(c) ==
  IF c < 65 THEN c
  ELSE IF c <= 90 THEN c + 32
  ELSE IF c < 192 \/ (c > 11506 /\ c < 42560) THEN c
  ELSE IF \E k \in 1..Len(LowerRuns) : InLowerRun(c, LowerRuns[k])
  THEN c + LowerRuns[CHOOSE k \in 1..Len(LowerRuns) :
                       InLowerRun(c, LowerRuns[k])][4]
  ELSE c

\* the capital sigma s[i] ends a word: a cased character stands before it
\* and none after it, case-ignorable characters aside
FinalSigma(s, i) ==
  LET before == {j \in 1..(i - 1) : ~IsCaseIgnorable(s[j])}
      after  == {j \in (i + 1)..Len(s) : ~IsCaseIgnorable(s[j])}
  IN  /\ before # {}
      /\ IsCased(s[CHOOSE j \in before : \A k \in before : k <= j])
      /\ \/ after = {}
         \/ ~IsCased(s[CHOOSE j \in after : \A k \in after : j <= k])

\* str.lower() from position i of s on: U+0130 gives two characters, the
\* capital sigma the final or the medial small one
RECURSIVE LowerFrom(_, _)
LowerFrom(s, i) ==
  IF i > Len(s) THEN <<>>
  ELSE (IF s[i] = 304 THEN <<105, 775>>
        ELSE IF s[i] = 931
        THEN (IF FinalSigma(s, i) THEN <<962>> ELSE <<963>>)
        ELSE <<LowerChar(s[i])>>) \o LowerFrom(s, i + 1)

\* str.lower()
Lower(s) ==
  IF \A i \in 1..Len(s) : s[i] # 304 /\ s[i] # 931
  THEN [i \in 1..Len(s) |-> LowerChar(s[i])]
  ELSE LowerFrom(s, 1)

\* kw in s
Contains(s, kw) ==
  \E i \in 0..(Len(s) - Len(kw)) : SubSeq(s, i + 1, i + Len(kw)) = kw

\* s.startswith(p)
StartsWith(s, p) == Len(s) >= Len(p) /\ SubSeq(s, 1, Len(p)) = p

\* any(k.lower() in lower_name for k in keywords)
MatchesAny(name, keywords) ==
  \E lower_name \in {Lower(name)} :
     \E j \in 1..Len(keywords) :
        \E k \in {Lower(keywords[j])} : Contains(lower_name, k)

\* s[-6:]
Last6(s) == IF Len(s) <= 6 THEN s ELSE SubSeq(s, Len(s) - 5, Len(s))

\* the characters str.strip() removes
WhiteSpace ==
  (9..13) \cup (28..32) \cup {133, 160, 5760} \cup (8192..8202)
    \cup {8232, 8233, 8239, 8287, 12288}

\* s with the characters of the set removed from both ends
RECURSIVE StripOf(_, _)
StripOf(s, chars) ==
  IF s = <<>> THEN s
  ELSE IF Head(s) \in chars THEN StripOf(Tail(s), chars)
  ELSE IF s[Len(s)] \in chars THEN StripOf(SubSeq(s, 1, Len(s) - 1), chars)
  ELSE s

\* str.strip()
Strip(s) == StripOf(s, WhiteSpace)

\* a < b for two str, as Python compares them: by code points
RECURSIVE StrLt(_, _)
StrLt(a, b) ==
  IF b = <<>> THEN FALSE
  ELSE IF a = <<>> THEN TRUE
  ELSE IF Head(a) = Head(b) THEN StrLt(Tail(a), Tail(b))
  ELSE Head(a) < Head(b)

----------------------------------------------------------------------------
(* float(str).  The value is the float nearest to the decimal value.       *)

\* the value of the decimal digit c, -1 for any other character
DigitValue(c) ==
  IF \E k \in 1..Len(DigitRuns) : InRange(c, DigitRuns[k])
  THEN (c - DigitRuns[CHOOSE k \in 1..Len(DigitRuns) :
                        InRange(c, DigitRuns[k])][1]) % 10
  ELSE -1

\* float() reads a str through ASCII: a character from U+007F on becomes a
\* blank when it is whitespace, its ASCII digit when it is a decimal digit,
\* and "?" otherwise
ToAscii(c) ==
  IF c < 127 THEN c
  ELSE IF c \in WhiteSpace THEN 32
  ELSE IF DigitValue(c) >= 0 THEN 48 + DigitValue(c)
  ELSE 63

IsDigit(c) == c >= 48 /\ c <= 57

\* underscores are allowed between two digits only
UnderscoresOk(t) ==
  \A i \in 1..Len(t) :
     t[i] = 95 => /\ i > 1 /\ IsDigit(t[i - 1])
                  /\ i < Len(t) /\ IsDigit(t[i + 1])

\* str(k) for an integer k >= 0
RECURSIVE IntStr(_)
IntStr(k) ==
  IF k < 10 THEN <<48 + k>> ELSE Append(IntStr(k \div 10), 48 + (k % 10))

\* sgn times the float that float() reads in m * 10^e, for an integer
\* m > 0: inf from 2^1024 - 2^970 on (halfway from the largest float to
\* 2^1024, 1.797693134862315807...e308), a zero up to 2^-1075 (half the
\* smallest float, 2.47032822920623272...e-324), the float nearest to
\* m * 10^e between.  lead is the first nine digits of m, which settle all
\* but the closest cases.
Decimal(sgn, m, e) ==
  LET Limits(c, x, lead, v) ==
        IF \/ x > 308
           \/ /\ x = 308
              /\ \/ lead > 179769313
                 \/ /\ lead = 179769313 /\ c > 9
                    /\ ~QLt(v, Num(Pow(2, 1024) - Pow(2, 970)))
        THEN [n |-> sgn, d |-> 0]
        ELSE IF \/ x < -324
                \/ /\ x = -324
                   /\ \/ lead < 247032822
                      \/ /\ lead = 247032822
                         /\ (c <= 9 \/ ~QLt(Q(1, Pow(2, 1075)), v))
        THEN [n |-> 0, d |-> sgn]
        ELSE Float(Scale(Num(sgn * m), 10, e))
      Of(c) ==
        Limits(c, c - 1 + e,
               IF c > 9 THEN m \div Pow(10, c - 9) ELSE m * Pow(10, 9 - c),
               Scale(Num(m), 10, e))
  IN  Of(Len(IntStr(m)))

\* t with A to Z lowered: float() compares "inf" and "nan" in ASCII
AsciiLower(t) ==
  [i \in 1..Len(t) |-> IF t[i] >= 65 /\ t[i] <= 90 THEN t[i] + 32 ELSE t[i]]

\* the decimal literal t read from position i on: digits, then "." and
\* digits, then "e" or "E" with an optional sign and digits.  st holds the
\* part being read, the mantissa digits as the integer m, how many digits
\* were read (digits), how many after the point (frac), and the exponent
\* with its sign and digit count.  None where float() raises.
RECURSIVE Scan(_, _, _, _)
Scan(t, i, st, sgn) ==
  IF i > Len(t)
  THEN IF st.digits = 0 \/ (st.part \in {"e", "exp"} /\ st.edigits = 0)
       THEN None
       ELSE IF st.m = 0 THEN [n |-> 0, d |-> sgn]
       ELSE Decimal(sgn, st.m, (IF st.eneg THEN -st.e ELSE st.e) - st.frac)
  ELSE IF t[i] = 95 THEN Scan(t, i + 1, st, sgn)
  ELSE IF IsDigit(t[i]) /\ st.part = "int"
  THEN Scan(t, i + 1, [st EXCEPT !.m = 10 * @ + (t[i] - 48),
                                 !.digits = @ + 1], sgn)
  ELSE IF IsDigit(t[i]) /\ st.part = "frac"
  THEN Scan(t, i + 1, [st EXCEPT !.m = 10 * @ + (t[i] - 48),
                                 !.digits = @ + 1, !.frac = @ + 1], sgn)
  ELSE IF IsDigit(t[i])
  THEN Scan(t, i + 1, [st EXCEPT !.e = 10 * @ + (t[i] - 48),
                                 !.edigits = @ + 1, !.part = "exp"], sgn)
  ELSE IF t[i] = 46 /\ st.part = "int"
  THEN Scan(t, i + 1, [st EXCEPT !.part = "frac"], sgn)
  ELSE IF t[i] \in {101, 69} /\ st.part \in {"int", "frac"}
  THEN Scan(t, i + 1, [st EXCEPT !.part = "e"], sgn)
  ELSE IF t[i] \in {43, 45} /\ st.part = "e" /\ i > 1 /\ t[i - 1] \in {101, 69}
  THEN Scan(t, i + 1, [st EXCEPT !.eneg = (t[i] = 45)], sgn)
  ELSE None

\* float(t) times sgn for t without sign and outer whitespace; None where
\* float() raises, and for NaN.  "inf", "infinity" and "nan" count in any
\* case.
Unsigned(t, sgn) ==
  IF AsciiLower(t) \in {<<105, 110, 102>>,
                        <<105, 110, 102, 105, 110, 105, 116, 121>>}
  THEN [n |-> sgn, d |-> 0]
  ELSE IF AsciiLower(t) = <<110, 97, 110>> \/ ~UnderscoresOk(t) THEN None
  ELSE Scan(t, 1, [part |-> "int", m |-> 0, digits |-> 0, frac |-> 0,
                   e |-> 0, edigits |-> 0, eneg |-> FALSE], sgn)

\* float(s) for a str s; None where float() raises, and for NaN.  The
\* ASCII whitespace (9 to 13 and the blank) is stripped from both ends.
FloatOfStr(s) ==
  LET Of(a) == IF a # <<>> /\ Head(a) \in {43, 45}
               THEN Unsigned(Tail(a), IF Head(a) = 45 THEN -1 ELSE 1)
               ELSE Unsigned(a, 1)
  IN  Of(StripOf([i \in 1..Len(s) |-> ToAscii(s[i])], (9..13) \cup {32}))

----------------------------------------------------------------------------
(* str(float): the shortest decimal that float() reads as the same float.  *)

\* <<I, e>> for the decimal I * 10^e of the fewest digits, p at least, that
\* is read as the float f > 0; of two such of p digits the one nearer to f
RECURSIVE ShortestDigits(_, _)
ShortestDigits(f, p) ==
  LET Reads(I, e) == I > 0 /\ Float(Scale(Num(I), 10, e)) = f
      Pick(e, lo, rem2, den, lo_ok, hi_ok) ==
        IF lo_ok /\ (~hi_ok \/ rem2 < den \/ (rem2 = den /\ lo % 2 = 0))
        THEN <<lo, e>>
        ELSE IF hi_ok THEN <<lo + 1, e>>
        ELSE ShortestDigits(f, p + 1)
      Try(e, s) ==
        Pick(e, s.n \div s.d, 2 * (s.n % s.d), s.d,
             Reads(s.n \div s.d, e), Reads((s.n \div s.d) + 1, e))
      At(e) == Try(e, Scale(f, 10, -e))
  IN  At(Order(f, 10, 0) + 1 - p)

\* <<I, e>> with x = I * 10^e when the rational x > 0 is a decimal of p to
\* 15 digits, decpt being Order(x, 10, 0) + 1; <<0, 0>> when it is none.  Such
\* a decimal is the shortest one read as its float.
RECURSIVE ExactDecimal(_, _, _)
ExactDecimal(x, decpt, p) ==
  LET Take(s) == IF s.d = 1 THEN <<s.n, decpt - p>>
                 ELSE ExactDecimal(x, decpt, p + 1)
  IN  IF p > 15 THEN <<0, 0>> ELSE Take(Scale(x, 10, p - decpt))

\* repr of the float I * 10^e, I > 0 its shortest digits: "12.0", "0.001",
\* "1e+16", "1.5e-07"
FormatFloat(I, e) ==
  LET Layout(ds, decpt) ==
        IF decpt > -4 /\ decpt <= 16
        THEN IF decpt <= 0
             THEN <<48, 46>> \o [i \in 1..(-decpt) |-> 48] \o ds
             ELSE IF decpt >= Len(ds)
             THEN ds \o [i \in 1..(decpt - Len(ds)) |-> 48] \o <<46, 48>>
             ELSE SubSeq(ds, 1, decpt) \o <<46>> \o SubSeq(ds, decpt + 1, Len(ds))
        ELSE <<ds[1]>> \o (IF Len(ds) > 1 THEN <<46>> \o Tail(ds) ELSE <<>>)
             \o <<101, IF decpt < 1 THEN 45 ELSE 43>>
             \o (IF Abs(decpt - 1) < 10 THEN <<48>> ELSE <<>>)
             \o IntStr(Abs(decpt - 1))
  IN  Layout(StripOf(IntStr(I), {48}), Len(IntStr(I)) + e)

\* str(x) of a float x: "nan", "inf", "-inf", "0.0", "-0.0", or the sign
\* and the shortest digits of |x|
FloatRepr(q) ==
  LET Format(t) == FormatFloat(t[1], t[2])
      Digits(exact) ==
        IF exact[1] > 0 THEN exact ELSE ShortestDigits(Float(QAbs(q)), 1)
  IN  IF q = NaN THEN <<110, 97, 110>>
      ELSE IF q.d = 0 /\ q.n > 0 THEN <<105, 110, 102>>
      ELSE IF q.d = 0 THEN <<45, 105, 110, 102>>
      ELSE (IF Sign(q) < 0 THEN <<45>> ELSE <<>>) \o
           (IF q.n = 0 THEN <<48, 46, 48>>
            ELSE Format(Digits(ExactDecimal(QAbs(q), Order(QAbs(q), 10, 0) + 1, 1))))

----------------------------------------------------------------------------
(* The keyword lists and column names of the source, spelled out.          *)

\* 净资产收益率, roe
KW_roe ==
  << <<20928, 36164, 20135, 25910, 30410, 29575>>,
     <<114, 111, 101>> >>

\* 总资产报酬率, roa
KW_roa ==
  << <<24635, 36164, 20135, 25253, 37228, 29575>>,
     <<114, 111, 97>> >>

\* 毛利率
KW_gross_margin ==
  << <<27611, 21033, 29575>> >>

\* 销售净利率, 净利率
KW_net_margin ==
  << <<38144, 21806, 20928, 21033, 29575>>,
     <<20928, 21033, 29575>> >>

\* 总市值, 市值, market_cap
KW_market_cap ==
  << <<24635, 24066, 20540>>,
     <<24066, 20540>>,
     <<109, 97, 114, 107, 101, 116, 95, 99, 97, 112>> >>

\* 净利润同比增长, 净利润同比增长率, 归母净利润同比增长
KW_growth ==
  << <<20928, 21033, 28070, 21516, 27604, 22686, 38271>>,
     <<20928, 21033, 28070, 21516, 27604, 22686, 38271, 29575>>,
     <<24402, 27597, 20928, 21033, 28070, 21516, 27604, 22686, 38271>> >>

\* 资产总计, 总资产, total_assets
KW_total_assets ==
  << <<36164, 20135, 24635, 35745>>,
     <<24635, 36164, 20135>>,
     <<116, 111, 116, 97, 108, 95, 97, 115, 115, 101, 116, 115>> >>

\* 负债合计, 总负债, total_liabilities
KW_total_liab ==
  << <<36127, 20538, 21512, 35745>>,
     <<24635, 36127, 20538>>,
     <<116, 111, 116, 97, 108, 95, 108, 105, 97, 98, 105, 108, 105, 116, 105, 101, 115>> >>

\* 流动资产合计, 流动资产, total_current_assets
KW_current_assets ==
  << <<27969, 21160, 36164, 20135, 21512, 35745>>,
     <<27969, 21160, 36164, 20135>>,
     <<116, 111, 116, 97, 108, 95, 99, 117, 114, 114, 101, 110, 116, 95, 97, 115, 115, 101, 116, 115>> >>

\* 流动负债合计, 流动负债, total_current_liab
KW_current_liab ==
  << <<27969, 21160, 36127, 20538, 21512, 35745>>,
     <<27969, 21160, 36127, 20538>>,
     <<116, 111, 116, 97, 108, 95, 99, 117, 114, 114, 101, 110, 116, 95, 108, 105, 97, 98>> >>

\* 存货, 库存, inventory
KW_inventory ==
  << <<23384, 36135>>,
     <<24211, 23384>>,
     <<105, 110, 118, 101, 110, 116, 111, 114, 121>> >>

\* 营业总收入, 营业收入, total_operate_income, operate_income
KW_revenue ==
  << <<33829, 19994, 24635, 25910, 20837>>,
     <<33829, 19994, 25910, 20837>>,
     <<116, 111, 116, 97, 108, 95, 111, 112, 101, 114, 97, 116, 101, 95, 105, 110, 99, 111, 109, 101>>,
     <<111, 112, 101, 114, 97, 116, 101, 95, 105, 110, 99, 111, 109, 101>> >>

\* 净利润, 归母净利润, 归属于母公司所有者的净利润, parent_netprofit, netprofit
KW_net_profit ==
  << <<20928, 21033, 28070>>,
     <<24402, 27597, 20928, 21033, 28070>>,
     <<24402, 23646, 20110, 27597, 20844, 21496, 25152, 26377, 32773, 30340, 20928, 21033, 28070>>,
     <<112, 97, 114, 101, 110, 116, 95, 110, 101, 116, 112, 114, 111, 102, 105, 116>>,
     <<110, 101, 116, 112, 114, 111, 102, 105, 116>> >>

\* 股东权益合计, 归属于母公司股东权益合计, total_parent_equity
KW_parent_equity ==
  << <<32929, 19996, 26435, 30410, 21512, 35745>>,
     <<24402, 23646, 20110, 27597, 20844, 21496, 32929, 19996, 26435, 30410, 21512, 35745>>,
     <<116, 111, 116, 97, 108, 95, 112, 97, 114, 101, 110, 116, 95, 101, 113, 117, 105, 116, 121>> >>

\* 营业成本, operate_cost
KW_operate_cost ==
  << <<33829, 19994, 25104, 26412>>,
     <<111, 112, 101, 114, 97, 116, 101, 95, 99, 111, 115, 116>> >>

\* parent_netprofit_yoy, netprofit_yoy, total_operate_income_yoy, operate_income_yoy
KW_growth_yoy ==
  << <<112, 97, 114, 101, 110, 116, 95, 110, 101, 116, 112, 114, 111, 102, 105, 116, 95, 121, 111, 121>>,
     <<110, 101, 116, 112, 114, 111, 102, 105, 116, 95, 121, 111, 121>>,
     <<116, 111, 116, 97, 108, 95, 111, 112, 101, 114, 97, 116, 101, 95, 105, 110, 99, 111, 109, 101, 95, 121, 111, 121>>,
     <<111, 112, 101, 114, 97, 116, 101, 95, 105, 110, 99, 111, 109, 101, 95, 121, 111, 121>> >>

\* 市盈率-动态, 市盈率(动态), 市盈率
pe_candidates ==
  << <<24066, 30408, 29575, 45, 21160, 24577>>,
     <<24066, 30408, 29575, 40, 21160, 24577, 41>>,
     <<24066, 30408, 29575>> >>

\* 市净率
pb_candidates ==
  << <<24066, 20928, 29575>> >>

\* 总市值, 总市值(亿元)
mv_candidates ==
  << <<24635, 24066, 20540>>,
     <<24635, 24066, 20540, 40, 20159, 20803, 41>> >>

\* REPORT_DATE
COL_REPORT_DATE == <<82, 69, 80, 79, 82, 84, 95, 68, 65, 84, 69>>

\* 选项
COL_option == <<36873, 39033>>

\* 指标
COL_metric == <<25351, 26631>>

\* 代码
COL_code == <<20195, 30721>>

\* 中等
RISK_default == <<20013, 31561>>

\* 高
RISK_high == <<39640>>

\* 中
RISK_mid == <<20013>>

\* 低
RISK_low == <<20302>>

\* 资产总计
N_total_assets == <<36164, 20135, 24635, 35745>>

\* 负债合计
N_total_liab == <<36127, 20538, 21512, 35745>>

\* 流动资产合计
N_current_assets == <<27969, 21160, 36164, 20135, 21512, 35745>>

\* 流动负债合计
N_current_liab == <<27969, 21160, 36127, 20538, 21512, 35745>>

\* 非流动负债合计
N_noncurrent_liab == <<38750, 27969, 21160, 36127, 20538, 21512, 35745>>

\* 存货
N_inventory == <<23384, 36135>>

\* 股东权益合计
N_equity == <<32929, 19996, 26435, 30410, 21512, 35745>>

\* 营业总收入
N_revenue == <<33829, 19994, 24635, 25910, 20837>>

\* 营业成本
N_cost == <<33829, 19994, 25104, 26412>>

\* 净利润
N_net_profit == <<20928, 21033, 28070>>

\* PARENT_NETPROFIT_YOY
N_yoy == <<80, 65, 82, 69, 78, 84, 95, 78, 69, 84, 80, 82, 79, 70, 73, 84, 95, 89, 79, 89>>

\* 净资产收益率(ROE)
N_abs_roe == <<20928, 36164, 20135, 25910, 30410, 29575, 40, 82, 79, 69, 41>>

\* 总资产报酬率(ROA)
N_abs_roa == <<24635, 36164, 20135, 25253, 37228, 29575, 40, 82, 79, 65, 41>>

\* 毛利率
N_abs_gm == <<27611, 21033, 29575>>

\* 销售净利率
N_abs_nm == <<38144, 21806, 20928, 21033, 29575>>

\* 总市值
N_abs_mc == <<24635, 24066, 20540>>

\* 净利润同比增长率
N_abs_growth == <<20928, 21033, 28070, 21516, 27604, 22686, 38271, 29575>>

\* 市盈率-动态
N_pe_dyn == <<24066, 30408, 29575, 45, 21160, 24577>>

\* 市净率
N_pb == <<24066, 20928, 29575>>

\* 总市值
N_mv == <<24635, 24066, 20540>>

\* TOTAL_ASSETS
E_total_assets == <<84, 79, 84, 65, 76, 95, 65, 83, 83, 69, 84, 83>>

\* TOTAL_LIABILITIES
E_total_liab == <<84, 79, 84, 65, 76, 95, 76, 73, 65, 66, 73, 76, 73, 84, 73, 69, 83>>

\* TOTAL_CURRENT_ASSETS
E_current_assets == <<84, 79, 84, 65, 76, 95, 67, 85, 82, 82, 69, 78, 84, 95, 65, 83, 83, 69, 84, 83>>

\* TOTAL_CURRENT_LIAB
E_current_liab == <<84, 79, 84, 65, 76, 95, 67, 85, 82, 82, 69, 78, 84, 95, 76, 73, 65, 66>>

\* INVENTORY
E_inventory == <<73, 78, 86, 69, 78, 84, 79, 82, 89>>

\* TOTAL_PARENT_EQUITY
E_equity == <<84, 79, 84, 65, 76, 95, 80, 65, 82, 69, 78, 84, 95, 69, 81, 85, 73, 84, 89>>

\* 常用指标
N_common == <<24120, 29992, 25351, 26631>>

\* -
N_dash == <<45>>

----------------------------------------------------------------------------
(* Raw cells and tables.                                                   *)
(*                                                                         *)
(* A raw cell is [kind, q, s]: kind "num" carries the float q, kind "int"  *)
(* the int q, kind "text" a str s, kind "nan" is float NaN, kind "null" is *)
(* None.  A DataFrame is [columns, rows]: the column labels in order and   *)
(* the rows, each a sequence of cells in column order.  A row as a Series  *)
(* is the sequence of [name, raw] in column order; as a dict               *)
(* (Series.to_dict()) it holds one [name, raw] per label, in the order of  *)
(* the labels' first columns.  The value None of get_latest_row is the     *)
(* empty sequence.                                                         *)

RawNum(q)  == [kind |-> "num",  q |-> q,    s |-> <<>>]
RawInt(k)  == [kind |-> "int",  q |-> Num(k), s |-> <<>>]
RawText(s) == [kind |-> "text", q |-> None, s |-> s]
RawNaN     == [kind |-> "nan",  q |-> None, s |-> <<>>]
RawNull    == [kind |-> "null", q |-> None, s |-> <<>>]

EmptyDf == [columns |-> <<>>, rows |-> <<>>]

\* df is None or df.empty
IsEmptyDf(d) == d.rows = <<>> \/ d.columns = <<>>

NoRow == <<>>

\* "col in df.columns"
HasColumn(d, col) == \E j \in 1..Len(d.columns) : d.columns[j] = col

\* the label col stands over more than one column
Repeated(d, col) ==
  \E j, k \in 1..Len(d.columns) :
     j # k /\ d.columns[j] = col /\ d.columns[k] = col

ColumnIndex(d, col) == CHOOSE j \in 1..Len(d.columns) : d.columns[j] = col

\* df.iloc[i]
RowSeries(d, i) ==
  [j \in 1..Len(d.columns) |-> [name |-> d.columns[j], raw |-> d.rows[i][j]]]

\* df.iloc[i].to_dict(): a label that stands over several columns is one
\* key, in the place of its first column and with the cell of its last
RowDict(d, i) ==
  LET Cell(j) ==
        [name |-> d.columns[j],
         raw  |-> d.rows[i][CHOOSE k \in j..Len(d.columns) :
                              /\ d.columns[k] = d.columns[j]
                              /\ \A m \in (k + 1)..Len(d.columns) :
                                    d.columns[m] # d.columns[j]]]
      Keys(js) == [m \in 1..Len(js) |-> Cell(js[m])]
  IN  Keys(SelectSeq([j \in 1..Len(d.columns) |-> j],
                     LAMBDA j : \A k \in 1..(j - 1) :
                                   d.columns[k] # d.columns[j]))

\* float(val) of a float is the float, of an int the float nearest to it,
\* of a str what float() reads in it; None for None, for NaN and where
\* float() raises (a str it cannot read, an int beyond the floats)
safe_float(val) ==
  LET Of(f) == IF f = NaN \/ (val.kind = "int" /\ f.d = 0) THEN None ELSE f
  IN  IF val.kind \in {"num", "int"} THEN Of(Float(val.q))
      ELSE IF val.kind = "text" THEN FloatOfStr(val.s)
      ELSE None

\* str(x) of a cell: a str is itself, NaN is "nan", None is "None", an int
\* its digits after "-" when negative, and a float its repr
CellStr(c) ==
  IF c.kind = "text" THEN c.s
  ELSE IF c.kind = "int"
  THEN (IF c.q.n < 0 THEN <<45>> ELSE <<>>) \o IntStr(Abs(c.q.n))
  ELSE IF c.kind = "nan" THEN <<110, 97, 110>>
  ELSE IF c.kind = "null" THEN <<78, 111, 110, 101>>
  ELSE FloatRepr(c.q)

\* DataFrame.sort_values(col) raises when the label stands over several
\* columns and when the column mixes str and numbers
SortRaises(d, j) ==
  \/ Repeated(d, d.columns[j])
  \/ /\ \E i \in 1..Len(d.rows) : d.rows[i][j].kind = "text"
     /\ \E i \in 1..Len(d.rows) : d.rows[i][j].kind \in {"num", "int"}

CellLe(a, b) ==
  IF a.kind = "text" THEN ~StrLt(b.s, a.s) ELSE ~QLt(b.q, a.q)

\* the index in df of the last row of df.sort_values(columns[j]): missing
\* values sort last, equal keys keep their order
SortedLastIndex(d, j) ==
  LET rows    == d.rows
      missing == {i \in 1..Len(rows) : rows[i][j].kind \in {"nan", "null"}}
      present == (1..Len(rows)) \ missing
  IN  IF missing # {}
      THEN CHOOSE i \in missing : \A k \in missing : k <= i
      ELSE CHOOSE i \in present :
             \A k \in present :
                /\ CellLe(rows[k][j], rows[i][j])
                /\ (CellLe(rows[i][j], rows[k][j]) => k <= i)

get_latest_row(d) ==
  IF IsEmptyDf(d) THEN NoRow
  ELSE IF HasColumn(d, COL_REPORT_DATE)
          /\ ~SortRaises(d, ColumnIndex(d, COL_REPORT_DATE))
  THEN RowDict(d, SortedLastIndex(d, ColumnIndex(d, COL_REPORT_DATE)))
  ELSE IF SortRaises(d, 1) THEN RowDict(d, Len(d.rows))
  ELSE RowDict(d, SortedLastIndex(d, 1))

\* extract_metric, were the last matching column to win
RECURSIVE extract_metric_last(_, _)
extract_metric_last(row, keywords) ==
  LET Take(candidate) ==
        IF ~IsNone(candidate) THEN candidate
        ELSE extract_metric_last(SubSeq(row, 1, Len(row) - 1), keywords)
  IN  IF row = <<>> THEN None
      ELSE Take(IF MatchesAny(row[Len(row)].name, keywords)
                THEN safe_float(row[Len(row)].raw) ELSE None)

RECURSIVE extract_metric(_, _)
extract_metric(row, keywords) ==
  LET Take(candidate) ==
        IF ~IsNone(candidate) THEN candidate
        ELSE extract_metric(Tail(row), keywords)
  IN  IF row = <<>> THEN None
      ELSE Take(IF MatchesAny(Head(row).name, keywords)
                THEN safe_float(Head(row).raw) ELSE None)

\* sorted(cols, reverse=True)
RECURSIVE SortedDesc(_)
SortedDesc(cols) ==
  IF cols = {} THEN <<>>
  ELSE LET m == CHOOSE c \in cols : \A o \in cols : ~StrLt(c, o)
       IN  <<m>> \o SortedDesc(cols \ {m})

\* the first value of row, over the columns in the order given, that
\* safe_float accepts.  A dict has one cell per label; in a Series a label
\* over several cells gives a Series of them, which float() raises on.
RECURSIVE FirstValue(_, _)
FirstValue(row, cols) ==
  LET Take(val) == IF ~IsNone(val) THEN val ELSE FirstValue(row, Tail(cols))
      At(hit) == IF Cardinality(hit) # 1 THEN None
                 ELSE safe_float(row[CHOOSE j \in hit : TRUE].raw)
  IN  IF cols = <<>> THEN None
      ELSE Take(At({j \in 1..Len(row) : row[j].name = Head(cols)}))

extract_from_abstract(d, keywords) ==
  LET First(candidates) ==
        IF candidates = {} THEN None
        ELSE FirstValue(RowDict(d, CHOOSE i \in candidates :
                                      \A k \in candidates : i <= k),
                        SortedDesc({d.columns[j] : j \in 1..Len(d.columns)}
                                     \ {COL_option, COL_metric}))
  IN  IF IsEmptyDf(d) THEN None
      ELSE IF ~HasColumn(d, COL_metric) THEN None     \* KeyError, caught
      ELSE IF Repeated(d, COL_metric) THEN None       \* no row mask: raises, caught
      ELSE First({i \in 1..Len(d.rows) :
                    MatchesAny(CellStr(d.rows[i][ColumnIndex(d, COL_metric)]),
                               keywords)})

\* safe_div without the test for a zero denominator: the quotient is infinite
safe_div_unchecked(numerator, denominator) ==
  IF IsNone(numerator) \/ IsNone(denominator) THEN None
  ELSE IF denominator.n = 0 THEN [n |-> 1, d |-> 0]     \* inf
  ELSE QDiv(numerator, denominator)

safe_div(numerator, denominator) ==
  IF IsNone(numerator) \/ IsNone(denominator) THEN None
  ELSE IF denominator.n = 0 THEN None
  ELSE QDiv(numerator, denominator)

\* the prefixes are "sh" = <<115, 104>>, "sz" = <<115, 122>> and
\* "bj" = <<98, 106>>; the digits "0" to "9" are 48 to 57
format_em_symbol(symbol) ==
  LET Of(code) ==
        IF code = <<>> THEN code
        ELSE IF StartsWith(code, <<115, 104>>) \/ StartsWith(code, <<115, 122>>)
                \/ StartsWith(code, <<98, 106>>) THEN code
        ELSE IF code[1] \in {54, 57} THEN <<115, 104>> \o code
        ELSE IF code[1] \in {48, 50, 51} THEN <<115, 122>> \o code
        ELSE IF code[1] \in {52, 56} THEN <<98, 106>> \o code
        ELSE <<115, 104>> \o code
  IN  Of(Lower(Strip(symbol)))

\* val / 100 if abs(val) > limit else val
ScaleDown(val, limit) ==
  IF QLt(Num(limit), QAbs(val)) THEN QDiv(val, Num(100)) ELSE val

\* fetch_quote_from_eastmoney, from the response's "data" object on.  A
\* quote is [pe, pb, market_cap]; a key the dict lacks is None.  The value
\* None of fetch_quote_from_eastmoney is the quote with no key, and a request
\* that raises leaves fill_from_spot with no quote either.
fetch_quote_from_eastmoney(resp) ==
  IF resp.status # "data" THEN [pe |-> None, pb |-> None, market_cap |-> None]
  ELSE
    LET Scaled(raw) == IF ~IsNone(raw) THEN ScaleDown(raw, 10) ELSE None
    IN  [pe         |-> Scaled(safe_float(resp.f162)),
         pb         |-> Scaled(safe_float(resp.f167)),
         market_cap |-> safe_float(resp.f116)]

----------------------------------------------------------------------------
(* main(): the record, the statement resolution, the scorer.               *)

\* the dict result as main constructs it
DefaultResult ==
  [pe |-> Num(0), pe_ttm |-> Num(0), pb |-> Num(0), roe |-> Num(0),
   roa |-> Num(0), growth |-> Num(0), net_margin |-> Num(0),
   gross_margin |-> Num(0), debt_ratio |-> Num(0), current_ratio |-> Num(0),
   quick_ratio |-> Num(0), ps |-> Num(0), market_cap |-> Num(0),
   fundamental_score |-> Num(0), valuation_score |-> Num(0),
   growth_score |-> Num(0), risk_level |-> RISK_default, error |-> ""]

\* x * 100 if x is not None
Percent(x) == IF ~IsNone(x) THEN QMul(x, Num(100)) ELSE x

\* the year-over-year column of the income statement, as main stores it
IncomeGrowth(row) ==
  LET Scaled(g) == IF ~IsNone(g) THEN ScaleDown(g, 1) ELSE g
  IN  Scaled(extract_metric(row, KW_growth_yoy))

\* IfMissing without the test that the direct lookup was absent
IfMissingUnguarded(val, can, derived) == IF can THEN derived ELSE val

\* "if x_val is None and <can>: x_val = <derived>" (lines 320-349): a metric
\* the abstract table gave is kept, a missing one is derived
IfMissing(val, can, derived) == IF IsNone(val) /\ can THEN derived ELSE val

\* "x or 0" (line 306)
OrZero(x) == IF Truthy(x) THEN x ELSE Num(0)

\* lines 308-349: the locals of main after the statement resolution, from
\* what lines 291-306 and the lookups of lines 314-347 read
Locals(isr, roe0, roa0, gm0, nm0, mc0, g0, total_assets, total_liab, current_assets, current_liab, inventory, revenue, net_profit, parent_equity, operate_cost) ==
  [debt_ratio    |-> safe_div(total_liab, total_assets),
   current_ratio |-> safe_div(current_assets, current_liab),
   quick_ratio   |->
     safe_div(IF ~IsNone(current_assets)
              THEN QSub(current_assets, inventory) ELSE None,
              current_liab),
   revenue_val   |-> revenue,
   ps_val        |-> safe_div(mc0, revenue),
   roe_val |->
     IfMissing(roe0, isr # NoRow,
               Percent(safe_div(net_profit, parent_equity))),
   roa_val |->
     IfMissing(roa0, isr # NoRow,
               Percent(safe_div(net_profit, total_assets))),
   gross_margin_val |->
     IfMissing(gm0,
               isr # NoRow /\ Truthy(revenue) /\ ~IsNone(operate_cost),
               Percent(safe_div(QSub(revenue, operate_cost), revenue))),
   net_margin_val |->
     IfMissing(nm0, isr # NoRow /\ Truthy(revenue),
               Percent(safe_div(net_profit, revenue))),
   market_cap_val |-> mc0,
   growth_val |->
     IfMissing(g0, isr # NoRow, IncomeGrowth(isr))]

\* lines 284-349: the abstract table and the latest balance-sheet and
\* income-statement rows into the locals of main
ResolveStatements(d, bsr, isr) ==
  Locals(isr,
         extract_from_abstract(d, KW_roe),
         extract_from_abstract(d, KW_roa),
         extract_from_abstract(d, KW_gross_margin),
         extract_from_abstract(d, KW_net_margin),
         extract_from_abstract(d, KW_market_cap),
         extract_from_abstract(d, KW_growth),
         extract_metric(bsr, KW_total_assets),
         extract_metric(bsr, KW_total_liab),
         extract_metric(bsr, KW_current_assets),
         extract_metric(bsr, KW_current_liab),
         OrZero(extract_metric(bsr, KW_inventory)),
         extract_metric(isr, KW_revenue),
         extract_metric(isr, KW_net_profit),
         extract_metric(bsr, KW_parent_equity),
         extract_metric(isr, KW_operate_cost))

\* result[key] = val if val is not None
Assign(cur, val) == IF ~IsNone(val) THEN val ELSE cur

\* the assignments of lines 351-377 (pe_val, pe_ttm_val and pb_val are None)
AssignStatements(r, loc) ==
  [r EXCEPT
     !.roe           = Assign(@, loc.roe_val),
     !.roa           = Assign(@, loc.roa_val),
     !.gross_margin  = Assign(@, loc.gross_margin_val),
     !.net_margin    = Assign(@, loc.net_margin_val),
     !.market_cap    = Assign(@, loc.market_cap_val),
     !.growth        = Assign(@, loc.growth_val),
     !.debt_ratio    = Assign(@, Percent(loc.debt_ratio)),
     !.current_ratio = Assign(@, loc.current_ratio),
     !.quick_ratio   = Assign(@, loc.quick_ratio),
     !.ps            = Assign(@, loc.ps_val)]

\* result.get("pe") == 0 or result.get("pb") == 0 or result.get("market_cap") == 0
NeedsQuote(r) == IsZero(r.pe) \/ IsZero(r.pb) \/ IsZero(r.market_cap)

\* Fill without the test for 0: the fallback source overwrites
FillAlways(cur, val) == IF ~IsNone(val) THEN val ELSE cur

\* a fallback source fills a field only while it is 0 (lines 79-82, 108-113)
Fill(cur, val) == IF IsZero(cur) /\ ~IsNone(val) THEN val ELSE cur

\* FillFromRec without the factor 10000 of line 97
FillFromRecUnscaled(r, row) ==
  [r EXCEPT
     !.pe         = Fill(@, FirstValue(row, pe_candidates)),
     !.pb         = Fill(@, FirstValue(row, pb_candidates)),
     !.market_cap = Fill(@, FirstValue(row, mv_candidates))]

\* fill_from_spot, lines 73-98: the matched snapshot row into the record
FillFromRec(r, row) ==
  [r EXCEPT
     !.pe         = Fill(@, FirstValue(row, pe_candidates)),
     !.pb         = Fill(@, FirstValue(row, pb_candidates)),
     !.market_cap =
        Fill(@, LET Yuan(v) == IF ~IsNone(v) THEN QMul(v, Num(10000)) ELSE v
                IN  Yuan(FirstValue(row, mv_candidates)))]

\* fill_from_spot, lines 107-113
FillFromQuote(r, q) ==
  [r EXCEPT !.pe         = Fill(@, q.pe),
            !.pb         = Fill(@, q.pb),
            !.market_cap = Fill(@, q.market_cap)]

\* main, lines 391-395
LatePs(r, revenue) ==
  IF IsZero(r.ps) /\ Truthy(revenue)
  THEN [r EXCEPT !.ps = Assign(@, safe_div(r.market_cap, revenue))]
  ELSE r

\* the bonus a threshold test earns
Bonus(cond, amount) == IF cond THEN amount ELSE Num(0)

\* min(score, 10)
Min10(x) == IF QLt(Num(10), x) THEN Num(10) ELSE x

\* ValuationBonus without the tests that pe and pb are set
ValuationBonusUnguarded(r) ==
  QAdd(Bonus(QLt(r.pe, Num(10)), Num(1)),
       Bonus(BelowLiteral(r.pb, Q(12, 10)), Q(1, 2)))

\* lines 402-405
ValuationBonus(r) ==
  QAdd(Bonus(Truthy(r.pe) /\ QLt(r.pe, Num(10)), Num(1)),
       Bonus(Truthy(r.pb) /\ BelowLiteral(r.pb, Q(12, 10)), Q(1, 2)))

\* lines 416-422
RiskLevel(r) ==
  IF QLt(Num(70), r.debt_ratio) THEN RISK_high
  ELSE IF QLt(Num(50), r.debt_ratio) THEN RISK_mid
  ELSE RISK_low

\* main, lines 397-423
Score(r) ==
  [r EXCEPT
     !.fundamental_score =
        Min10(QAdd(Num(6), Bonus(Truthy(r.roe) /\ QLt(Num(10), r.roe), Num(1)))),
     !.valuation_score = Min10(QAdd(Num(6), ValuationBonus(r))),
     !.growth_score =
        Min10(QAdd(Num(6), Bonus(Truthy(r.growth)
                                 /\ AboveLiteral(r.growth, Q(1, 10)), Num(1)))),
     !.risk_level = RiskLevel(r)]

----------------------------------------------------------------------------
(* The inputs: the symbol on stdin and what the collaborators answer.      *)

\* rows of a statement table (the latest period and the older ones)
MaxRows == 2
\* rows of the market snapshot
MaxSpotRows == 2

\* Standard input, by what json.loads makes of it: text it raises on
\* ("invalid"), an object with the value of its key "symbol" (None without
\* the key, as in "{}" and in empty input), or a value that is no object: a
\* str, null, an array, a number.  The symbols are "", "600519", " 600519 ",
\* 600519 after a tab and before a newline, the ints 600519 and 0 and the
\* float 600519.0.
Stdins ==
  { [kind |-> k, symbol |-> RawNull] :
      k \in {"invalid", "string", "null", "array", "number"} } \cup
  { [kind |-> "object", symbol |-> v] :
      v \in { RawNull, RawText(<<>>), RawText(<<54, 48, 48, 53, 49, 57>>),
              RawText(<<32, 54, 48, 48, 53, 49, 57, 32>>),
              RawText(<<9, 54, 48, 48, 53, 49, 57, 10>>),
              RawInt(600519), RawInt(0), RawNum(Num(600519)) } }

\* A statement table of n rows, newest first.  layout names each column and
\* the quantity it holds; v gives the latest period's cell of each
\* quantity; an older period's amounts differ from the latest one's.
OlderCell(c, age) ==
  IF c.kind = "num" THEN RawNum(QAdd(c.q, Num(7 * age))) ELSE c

StatementDf(layout, v, n) ==
  [columns |-> [j \in 1..Len(layout) |-> layout[j].name],
   rows    |-> [i \in 1..n |->
                 [j \in 1..Len(layout) |->
                    IF layout[j].q = "date" THEN RawNum(Num(2024 - i))
                    ELSE OlderCell(v[layout[j].q], i - 1)]]]

Col(name, q) == [name |-> name, q |-> q]

\* subtotals before totals, as the statement prints them
BsLayoutPrinted ==
  << Col(COL_REPORT_DATE, "date"), Col(N_inventory, "INV"),
     Col(N_current_assets, "CA"), Col(N_total_assets, "A"),
     Col(N_current_liab, "CL"), Col(N_noncurrent_liab, "NCL"),
     Col(N_total_liab, "L"), Col(N_equity, "EQ") >>

\* totals before subtotals, no REPORT_DATE column: the periods are in a
\* column 报告期
BsLayoutTotalsFirst ==
  << Col(<<25253, 21578, 26399>>, "date"),
     Col(N_total_assets, "A"), Col(N_total_liab, "L"),
     Col(N_current_assets, "CA"), Col(N_current_liab, "CL"),
     Col(N_inventory, "INV"), Col(N_equity, "EQ") >>

\* the provider's upper-case column names, no inventory column
BsLayoutEnglish ==
  << Col(COL_REPORT_DATE, "date"), Col(E_total_assets, "A"),
     Col(E_total_liab, "L"), Col(E_current_assets, "CA"),
     Col(E_current_liab, "CL"), Col(E_equity, "EQ") >>

\* total assets 2048 or 0, liabilities 1280 (current 256 or 0, non-current
\* 1024), current assets 640, inventory 128, equity 512 or 0
BsValues ==
  { [A |-> RawNum(Num(a)), L |-> RawNum(Num(1280)), CA |-> RawNum(Num(640)),
     CL |-> RawNum(Num(cl)), NCL |-> RawNum(Num(1024)),
     INV |-> inv, EQ |-> RawNum(Num(IF a = 0 THEN 0 ELSE 512))]
    : a \in {0, 2048}, cl \in {0, 256}, inv \in {RawNum(Num(128))} }

\* the balance sheets: none, the layouts with these values, and one whose
\* non-current liabilities, the str "1024", stand between the total assets
\* and the total liabilities
BsDfs ==
  { EmptyDf,
    StatementDf(<< Col(COL_REPORT_DATE, "date"), Col(N_total_assets, "A"),
                   Col(N_noncurrent_liab, "NCL"), Col(N_total_liab, "L"),
                   Col(N_current_assets, "CA"), Col(N_current_liab, "CL"),
                   Col(N_inventory, "INV"), Col(N_equity, "EQ") >>,
                [A |-> RawNum(Num(2048)), NCL |-> RawText(<<49, 48, 50, 52>>),
                 L |-> RawNum(Num(1280)), CA |-> RawNum(Num(640)),
                 CL |-> RawNum(Num(256)), INV |-> RawNum(Num(128)),
                 EQ |-> RawNum(Num(512))],
                1) } \cup
  { StatementDf(layout, v, n)
      : layout \in {BsLayoutPrinted, BsLayoutTotalsFirst, BsLayoutEnglish},
        v \in BsValues, n \in 1..MaxRows }

IsLayout ==
  << Col(COL_REPORT_DATE, "date"), Col(N_revenue, "REV"), Col(N_cost, "COST"),
     Col(N_net_profit, "NP"), Col(N_yoy, "YOY") >>

\* the revenue cell is NaN, 0, 4096 or the str "inf", the cost 2560, the net
\* profit 64, the year-over-year cell "-", 12.5, the str "12.5" or 0.5
IsValues ==
  { [REV |-> rev, COST |-> RawNum(Num(2560)), NP |-> RawNum(Num(64)), YOY |-> yoy]
    : rev \in {RawNaN, RawNum(Num(0)), RawNum(Num(4096)),
               RawText(<<105, 110, 102>>)},
      yoy \in {RawText(N_dash), RawNum(Q(25, 2)), RawText(<<49, 50, 46, 53>>),
               RawNum(Q(1, 2))} }

IsDfs ==
  {EmptyDf} \cup { StatementDf(IsLayout, v, n) : v \in IsValues, n \in 1..MaxRows }

\* The financial abstract: one row per metric, one column per period.  The
\* newest period of the ROA row is missing, so the period before it counts.
\* The table of ratios begins with two rows whose metric cell is no str: a
\* blank one (NaN) and one holding the int 2023.
AbstractRow(name, val) ==
  << RawText(N_common), RawText(name),
     IF val.kind = "num" THEN RawNum(QAdd(val.q, Num(3))) ELSE val,
     IF name = N_abs_roa THEN RawNaN ELSE val,
     IF name = N_abs_roa THEN val ELSE RawNaN >>

AbstractDf(ratios, growth) ==
  [columns |-> << COL_option, COL_metric,
                  <<50, 48, 50, 49>>,        \* 2021
                  <<50, 48, 50, 51>>,        \* 2023
                  <<50, 48, 50, 50>> >>,     \* 2022
   rows |->
     (IF ratios
      THEN << << RawText(N_common), RawNaN, RawNaN, RawNaN, RawNaN >>,
              << RawText(N_common), RawInt(2023), RawNaN, RawNaN, RawNaN >>,
              AbstractRow(N_abs_roe, RawNum(Num(12))),
              AbstractRow(N_abs_roa, RawNum(Num(5))),
              AbstractRow(N_abs_gm, RawNum(Num(40))),
              AbstractRow(N_abs_nm, RawNum(Num(20))) >>
      ELSE <<>>)
     \o (IF growth.kind = "num" THEN << AbstractRow(N_abs_growth, growth) >> ELSE <<>>)
     \o (IF ratios THEN << AbstractRow(N_abs_mc, RawNum(Num(5000))) >> ELSE <<>>)]

AbstractDfs ==
  { AbstractDf(ratios, growth) :
      ratios \in BOOLEAN,
      growth \in {RawNull, RawNum(Q(25, 2)), RawNum(Q(1, 16))} }

\* The market snapshot: the symbol's row (code "600519") among the rows of
\* other stocks (code "000002"); the second column is 名称.
SpotColumns == << COL_code, <<21517, 31216>>, N_pe_dyn, N_pb, N_mv >>

OtherSpotRow ==
  << RawText(<<48, 48, 48, 48, 48, 50>>), RawText(N_dash), RawNum(Num(99)), RawNum(Num(99)),
     RawNum(Num(99)) >>

\* the symbol's row has pe "-", 0, 28.5 or -5, pb NaN or 9.25 and a market
\* cap of NaN or 350
SpotDfs ==
  {EmptyDf} \cup
  { [columns |-> SpotColumns, rows |-> [i \in 1..n |-> OtherSpotRow]]
      : n \in 1..MaxSpotRows } \cup
  { [columns |-> SpotColumns,
     rows |-> [i \in 1..n |->
                 IF i = k
                 THEN << RawText(<<54, 48, 48, 53, 49, 57>>), RawText(N_dash),
                         pe, pb, mv >>
                 ELSE OtherSpotRow]]
      : pe \in {RawText(N_dash), RawNum(Num(0)), RawNum(Q(57, 2)), RawNum(Num(-5))},
        pb \in {RawNaN, RawNum(Q(37, 4))},
        mv \in {RawNaN, RawNum(Num(350))},
        n \in 1..MaxSpotRows, k \in 1..MaxSpotRows }

\* What the HTTP quote endpoint answers: the request raises, the response
\* carries no data, or it carries f162, f167 and f116.
QuoteResponses ==
  { [status |-> "raise", f162 |-> RawNull, f167 |-> RawNull, f116 |-> RawNull],
    [status |-> "nodata", f162 |-> RawNull, f167 |-> RawNull, f116 |-> RawNull] }
  \cup
  { [status |-> "data", f162 |-> pe, f167 |-> pb, f116 |-> mv] :
      pe \in {RawNull, RawNum(Num(8)), RawNum(Num(1250))},
      pb \in {RawText(N_dash), RawNum(Num(100))},
      mv \in {RawNull, RawNum(Num(7000000))} }

----------------------------------------------------------------------------
(* The run of main(), phase by phase.                                      *)

\* an external call, and whether it raised
Call(name, raised) == [call |-> name, raised |-> raised]

Init ==
  /\ stdin \in Stdins
  /\ pc = "start"
  /\ base_symbol = <<>>
  /\ em_symbol = <<>>
  /\ result = DefaultResult
  /\ df = EmptyDf
  /\ bs_row = NoRow
  /\ is_row = NoRow
  /\ revenue_val = None
  /\ rec = NoRow
  /\ calls = <<>>
  /\ stdout = <<>>

\* line 243: str(payload.get("symbol") or "").strip(), for the value v of
\* the payload's "symbol" (None, "", 0 and 0.0 are falsy)
SymbolOf(v) ==
  IF \/ v.kind = "null"
     \/ v.kind = "text" /\ v.s = <<>>
     \/ v.kind \in {"int", "num"} /\ v.q.n = 0
  THEN <<>>
  ELSE Strip(CellStr(v))

\* lines 238-267: read the payload (an empty object when json.loads
\* raises), take the symbol, build the record, leave on an empty symbol.
\* A payload that is no object has no get(): line 243 raises outside every
\* try, and nothing is printed.
Start ==
  /\ pc = "start"
  /\ stdin' = [kind |-> "read", symbol |-> RawNull]
  /\ IF stdin.kind \in {"invalid", "object"}
     THEN \E symbol \in {SymbolOf(stdin.symbol)} :
            /\ base_symbol' = Last6(symbol)
            /\ em_symbol' = format_em_symbol(Last6(symbol))
            /\ result' = DefaultResult
            /\ IF symbol = <<>>
               THEN /\ stdout' = Append(stdout, DefaultResult)
                    /\ pc' = "done"
               ELSE /\ stdout' = stdout
                    /\ pc' = "import"
     ELSE /\ pc' = "raised"
          /\ UNCHANGED << base_symbol, em_symbol, result, stdout >>
  /\ UNCHANGED << df, bs_row, is_row, revenue_val, rec, calls >>

\* lines 269-274: import the statement-data provider
ImportProvider ==
  /\ pc = "import"
  /\ \E ok \in BOOLEAN :
       /\ calls' = Append(calls, Call("import", ~ok))
       /\ IF ok
          THEN /\ pc' = "statements"
               /\ UNCHANGED << result, stdout >>
          ELSE /\ result' = [result EXCEPT !.error = "akshare import failed"]
               /\ stdout' = Append(stdout, result')
               /\ pc' = "done"
  /\ UNCHANGED << stdin, base_symbol, em_symbol, df, bs_row, is_row,
                  revenue_val, rec >>

\* the four fetches of lines 279-282, in order
Fetches == << "abstract", "balance_sheet", "profit_sheet", "cash_flow" >>

\* where main would go without the except clause of lines 379-381
AfterFetchFailureUncaught == "raised"

\* where main goes when the statement phase raises (lines 379-381)
AfterFetchFailure == "snapshot"

\* OnFetchFailure, had the record taken what the table fetched before the
\* failure gives
OnFetchFailureKeepsFetched(r, d) ==
  [AssignStatements(r, ResolveStatements(d, NoRow, NoRow))
     EXCEPT !.error = "akshare fetch failed"]

\* lines 379-381: the except clause of the statement phase; d is the abstract
\* table as far as it was fetched, and the record takes nothing from it
OnFetchFailure(r, d) == [r EXCEPT !.error = "akshare fetch failed"]

\* lines 278-282, 379-381: the k-th fetch raises, the tables before it were
\* fetched (the abstract table into df)
StatementsRaise ==
  /\ pc = "statements"
  /\ \E k \in 1..Len(Fetches), d \in AbstractDfs :
       /\ calls' = calls \o [i \in 1..k |-> Call(Fetches[i], i = k)]
       /\ df' = IF k > 1 THEN d ELSE df
  /\ pc' = AfterFetchFailure
  /\ result' = IF pc' = "raised" THEN result
               ELSE OnFetchFailure(result, df')
  /\ UNCHANGED << stdin, base_symbol, em_symbol, bs_row, is_row,
                  revenue_val, rec, stdout >>

\* lines 278-377: the four fetches answer and the statements are resolved
StatementsResolve ==
  /\ pc = "statements"
  /\ calls' = calls \o [i \in 1..Len(Fetches) |-> Call(Fetches[i], FALSE)]
  /\ \E d \in AbstractDfs, bs \in BsDfs, isd \in IsDfs :
       /\ df' = d
       /\ bs_row' = get_latest_row(bs)
       /\ is_row' = get_latest_row(isd)
       /\ \E loc \in {ResolveStatements(d, bs_row', is_row')} :
            /\ revenue_val' = loc.revenue_val
            /\ result' = AssignStatements(result, loc)
  /\ pc' = "snapshot"
  /\ UNCHANGED << stdin, base_symbol, em_symbol, rec, stdout >>

\* df_spot[df_spot["代码"] == symbol].iloc[0], or no row
MatchedRow(d, symbol) ==
  IF IsEmptyDf(d) \/ ~HasColumn(d, COL_code) THEN NoRow
  ELSE LET c   == ColumnIndex(d, COL_code)
           hit == {i \in 1..Len(d.rows) :
                     d.rows[i][c].kind = "text" /\ d.rows[i][c].s = symbol}
       IN  IF hit = {} THEN NoRow
           ELSE RowSeries(d, CHOOSE i \in hit : \A k \in hit : i <= k)

\* the try block of lines 64-98 raises: the fetch does, or a snapshot with
\* rows has no code column to select on (or several under the one label,
\* which select no row of values: nothing is filled and line 104 follows)
SpotRaises(raises, d) ==
  raises \/ (~IsEmptyDf(d) /\ (~HasColumn(d, COL_code) \/ Repeated(d, COL_code)))

\* where fill_from_spot goes after the snapshot: an empty snapshot and one
\* without a row for the symbol return from fill_from_spot (lines 68-72),
\* a failure and a matched row go on to line 104
AfterSnapshot(raised, row) ==
  IF ~raised /\ row = NoRow THEN "late_ps" ELSE "http_quote"

\* lines 384-386 and fill_from_spot, lines 64-101: the market snapshot
Snapshot ==
  /\ pc = "snapshot"
  /\ IF NeedsQuote(result)
     THEN \E raises \in BOOLEAN, d \in SpotDfs :
            /\ calls' = Append(calls, Call("spot", SpotRaises(raises, d)))
            /\ rec' = IF SpotRaises(raises, d) THEN NoRow
                      ELSE MatchedRow(d, base_symbol)
            /\ result' = IF rec' = NoRow THEN result
                         ELSE FillFromRec(result, rec')
            /\ pc' = AfterSnapshot(SpotRaises(raises, d), rec')
     ELSE /\ pc' = "late_ps"
          /\ UNCHANGED << calls, rec, result >>
  /\ UNCHANGED << stdin, base_symbol, em_symbol, df, bs_row, is_row,
                  revenue_val, stdout >>

\* fill_from_spot, lines 104-115: the HTTP quote, when a field is still 0
HttpQuote ==
  /\ pc = "http_quote"
  /\ NeedsQuote(result)
  /\ \E resp \in QuoteResponses :
       /\ calls' = Append(calls, Call("quote", resp.status = "raise"))
       /\ result' = FillFromQuote(result, fetch_quote_from_eastmoney(resp))
  /\ pc' = "late_ps"
  /\ UNCHANGED << stdin, base_symbol, em_symbol, df, bs_row, is_row,
                  revenue_val, rec, stdout >>

\* fill_from_spot, line 104: nothing is missing, no HTTP quote
SkipQuote ==
  /\ pc = "http_quote"
  /\ ~NeedsQuote(result)
  /\ pc' = "late_ps"
  /\ UNCHANGED << stdin, base_symbol, em_symbol, result, df, bs_row, is_row,
                  revenue_val, rec, calls, stdout >>

\* lines 391-395: price-to-sales once the market cap is known
LatePsStep ==
  /\ pc = "late_ps"
  /\ result' = LatePs(result, revenue_val)
  /\ pc' = "score"
  /\ UNCHANGED << stdin, base_symbol, em_symbol, df, bs_row, is_row,
                  revenue_val, rec, calls, stdout >>

\* lines 397-425: the scores, the risk tier and the record on stdout
ScoreAndEmit ==
  /\ pc = "score"
  /\ result' = Score(result)
  /\ stdout' = Append(stdout, result')
  /\ pc' = "done"
  /\ UNCHANGED << stdin, base_symbol, em_symbol, df, bs_row, is_row,
                  revenue_val, rec, calls >>

Next ==
  \/ Start
  \/ ImportProvider
  \/ StatementsRaise
  \/ StatementsResolve
  \/ Snapshot
  \/ HttpQuote
  \/ SkipQuote
  \/ LatePsStep
  \/ ScoreAndEmit

Spec == Init /\ [][Next]_vars

----------------------------------------------------------------------------
(* What the claims speak of.                                               *)

\* the external call was made
Called(name) == \E i \in 1..Len(calls) : calls[i].call = name

\* the external call was made and raised
Raised(name) == \E i \in 1..Len(calls) : calls[i].call = name /\ calls[i].raised

\* the four statement fetches answered, so lines 284-377 ran
StatementsResolved == Called("cash_flow") /\ ~Raised("cash_flow")

\* main printed a record
Emitted == Len(stdout) >= 1

\* the record main printed
Record == stdout[1]

\* the record was finalized by the scorer (lines 397-425)
Scored == pc = "done" /\ Called("abstract")

\* the metric fields of the record
MetricFields ==
  {"pe", "pb", "market_cap", "ps", "roe", "roa", "gross_margin", "net_margin",
   "growth", "debt_ratio", "current_ratio", "quick_ratio"}

\* the fields only the statement phase can set
StatementFields ==
  {"roe", "roa", "gross_margin", "net_margin", "growth", "debt_ratio",
   "current_ratio", "quick_ratio", "ps"}

\* the sanitized value of the column of that exact name, None without one
ColumnValue(row, name) ==
  IF \E j \in 1..Len(row) : row[j].name = name
  THEN safe_float(row[CHOOSE j \in 1..Len(row) : row[j].name = name].raw)
  ELSE None

----------------------------------------------------------------------------
\* how far main has come: every step of main moves forward
Position ==
  [s \in {"start", "import", "statements", "snapshot", "http_quote",
          "late_ps", "score", "done", "raised"} |->
     CASE s = "start"      -> 1
       [] s = "import"     -> 2
       [] s = "statements" -> 3
       [] s = "snapshot"   -> 4
       [] s = "http_quote" -> 5
       [] s = "late_ps"    -> 6
       [] s = "score"      -> 7
       [] OTHER            -> 8]

C2_ResolvedFieldsKept ==
  [][\A f \in MetricFields : result[f].n # 0 => result'[f] = result[f]]_vars

\* the abstract table resolved the market cap, the snapshot row offered
\* another one, and the record kept the abstract's
C2_Witness ==
  /\ pc = "http_quote"
  /\ StatementsResolved
  /\ Truthy(extract_from_abstract(df, KW_market_cap))
  /\ Truthy(ColumnValue(rec, N_mv))
  /\ result.market_cap = extract_from_abstract(df, KW_market_cap)
  /\ result.market_cap # QMul(ColumnValue(rec, N_mv), Num(10000))

\* C3: a failure in one phase never keeps the live-quote phase from
\* running, the provider's import failing included: a record printed for a
\* non-empty symbol without the market snapshot having been called has none
\* of pe, pb, market_cap at 0.
C3_LiveQuoteAlwaysAttempted ==
  (Emitted /\ Called("import") /\ ~Called("spot")) => ~NeedsQuote(Record)

\* C4: when any external call of the run raised (the provider's import, a
\* statement fetch, the market snapshot, the HTTP quote), the printed record
\* carries a non-empty error string.
C4_FailureLeavesError ==
  (Emitted /\ \E i \in 1..Len(calls) : calls[i].raised) => Record.error # ""

\* C5: in every printed record, the early exits included, risk_level is
\* the tier of the record's debt_ratio: high above 70, medium above 50, low
\* otherwise.
C5_RiskLevelFromDebtRatio ==
  Emitted =>
    /\ Record.risk_level \in {RISK_low, RISK_mid, RISK_high}
    /\ Record.risk_level =
         IF QLt(Num(70), Record.debt_ratio) THEN RISK_high
         ELSE IF QLt(Num(50), Record.debt_ratio) THEN RISK_mid
         ELSE RISK_low

\* the case C6 is about: a statement fetch raised and the snapshot had a row
\* for the symbol with a number in each of the three columns
C6_Case ==
  /\ pc = "done"
  /\ Raised("abstract") \/ Raised("balance_sheet") \/ Raised("profit_sheet")
       \/ Raised("cash_flow")
  /\ rec # NoRow
  /\ ~IsNone(ColumnValue(rec, N_pe_dyn))
  /\ ~IsNone(ColumnValue(rec, N_pb))
  /\ ~IsNone(ColumnValue(rec, N_mv))

\* what C6 says of every field but pe, pb and market_cap
C6_Rest ==
  /\ \A f \in StatementFields : Record[f] = Num(0)
  /\ Record.fundamental_score = Num(6)
  /\ Record.growth_score = Num(6)
  /\ Record.risk_level = RISK_low
  /\ Record.error # ""

\* C6 as stated: in that case the record has the row's pe, pb and market cap
\* unchanged, the statement fields at 0, both scores 6.0, the low risk tier
\* and an error string.
C6_SnapshotValuesUnchanged ==
  C6_Case =>
    /\ Record.pe = ColumnValue(rec, N_pe_dyn)
    /\ Record.pb = ColumnValue(rec, N_pb)
    /\ Record.market_cap = ColumnValue(rec, N_mv)
    /\ C6_Rest

\* C6 amended: when the row's three values are not 0, the record has the
\* row's pe and pb, 10000 times the row's market cap, and the rest as stated.
C6_SnapshotValuesScaled ==
  (/\ C6_Case
   /\ ColumnValue(rec, N_pe_dyn).n # 0
   /\ ColumnValue(rec, N_pb).n # 0
   /\ ColumnValue(rec, N_mv).n # 0) =>
    /\ Record.pe = ColumnValue(rec, N_pe_dyn)
    /\ Record.pb = ColumnValue(rec, N_pb)
    /\ Record.market_cap = QMul(Num(10000), ColumnValue(rec, N_mv))
    /\ C6_Rest

\* the snapshot row 28.5 / 9.25 / 350 after a failed statement fetch
C6_Witness ==
  /\ C6_Case
  /\ ColumnValue(rec, N_pe_dyn) = Q(57, 2)
  /\ ColumnValue(rec, N_pb) = Q(37, 4)
  /\ ColumnValue(rec, N_mv) = Num(350)
  /\ Record.market_cap = Num(3500000)

\* C7: whichever path resolved it, the stored growth is the raw value v in
\* fraction form: v / 100 when |v| > 1, v otherwise.  The raw value is the
\* abstract table's growth row when it has one, the income statement's
\* year-over-year column otherwise.
C7_GrowthInFractionForm ==
  StatementsResolved =>
    \A v \in {IF ~IsNone(extract_from_abstract(df, KW_growth))
              THEN extract_from_abstract(df, KW_growth)
              ELSE extract_metric(is_row, KW_growth_yoy)} :
       ~IsNone(v) =>
          result.growth = IF QLt(Num(1), QAbs(v)) THEN QDiv(v, Num(100)) ELSE v

\* a denominator that is zero or absent
NoDenominator(x) == IsNone(x) \/ x.n = 0

\* C8: no step of main raises once the input was read, and in the record
\* printed after the statement resolution a derived metric whose denominator
\* is zero or absent is 0 (for roe, roa and the margins: unless the abstract
\* table gave the metric directly), not infinity and not NaN.
C8_NoDenominatorLeavesZero ==
  /\ pc = "raised" => calls = <<>>
  /\ (Emitted /\ StatementsResolved) =>
       /\ NoDenominator(extract_metric(bs_row, KW_total_assets)) =>
            /\ Record.debt_ratio = Num(0)
            /\ IsNone(extract_from_abstract(df, KW_roa)) => Record.roa = Num(0)
       /\ NoDenominator(extract_metric(bs_row, KW_current_liab)) =>
            /\ Record.current_ratio = Num(0)
            /\ Record.quick_ratio = Num(0)
       /\ NoDenominator(extract_metric(bs_row, KW_parent_equity)) =>
            (IsNone(extract_from_abstract(df, KW_roe)) => Record.roe = Num(0))
       /\ NoDenominator(revenue_val) =>
            /\ Record.ps = Num(0)
            /\ IsNone(extract_from_abstract(df, KW_gross_margin)) =>
                 Record.gross_margin = Num(0)
            /\ IsNone(extract_from_abstract(df, KW_net_margin)) =>
                 Record.net_margin = Num(0)

\* total assets, shareholders' equity and revenue are 0, the abstract table
\* gives no ratio, a market cap came from a fallback source, and the record
\* was printed
C8_Witness ==
  /\ pc = "done"
  /\ StatementsResolved
  /\ IsZero(extract_metric(bs_row, KW_total_assets))
  /\ IsZero(extract_metric(bs_row, KW_parent_equity))
  /\ IsZero(revenue_val)
  /\ is_row # NoRow
  /\ IsNone(extract_from_abstract(df, KW_roe))
  /\ Truthy(result.market_cap)
  /\ result.ps = Num(0) /\ result.roe = Num(0) /\ result.debt_ratio = Num(0)

\* the names under which a balance sheet carries each quantity
TotalAssetsNames   == {N_total_assets, E_total_assets}
TotalLiabNames     == {N_total_liab, E_total_liab}
CurrentAssetsNames == {N_current_assets, E_current_assets}
CurrentLiabNames   == {N_current_liab, E_current_liab}
InventoryNames     == {N_inventory, E_inventory}

\* what safe_float reads in the row's column of one of these names, None
\* without a column it reads a number in
Carried(row, names) ==
  IF \E j \in 1..Len(row) :
        row[j].name \in names /\ ~IsNone(safe_float(row[j].raw))
  THEN safe_float(row[CHOOSE j \in 1..Len(row) :
                        row[j].name \in names /\ ~IsNone(safe_float(row[j].raw))].raw)
  ELSE None

\* the columns of the row that a keyword list can take: the name contains a
\* keyword and safe_float reads a number in the cell (a float, an int or a
\* str such as "1024")
Takers(row, keywords) ==
  {j \in 1..Len(row) :
     MatchesAny(row[j].name, keywords) /\ ~IsNone(safe_float(row[j].raw))}

\* the first column the keyword list can take is one of these names
FirstTakerIs(row, keywords, names) ==
  /\ Takers(row, keywords) # {}
  /\ row[CHOOSE j \in Takers(row, keywords) :
           \A k \in Takers(row, keywords) : j <= k].name \in names

\* the record was printed for a latest balance-sheet row that carries the
\* four columns, with denominators that are not 0
C9_Case ==
  /\ Emitted
  /\ StatementsResolved
  /\ ~IsNone(Carried(bs_row, TotalAssetsNames))
  /\ ~IsNone(Carried(bs_row, TotalLiabNames))
  /\ ~IsNone(Carried(bs_row, CurrentAssetsNames))
  /\ ~IsNone(Carried(bs_row, CurrentLiabNames))
  /\ Carried(bs_row, TotalAssetsNames).n # 0
  /\ Carried(bs_row, CurrentLiabNames).n # 0

\* the three ratios from the carried columns, inventory 0 when absent
C9_Ratios ==
  \E inventory \in {IF IsNone(Carried(bs_row, InventoryNames)) THEN Num(0)
                    ELSE Carried(bs_row, InventoryNames)} :
    /\ Record.debt_ratio =
         QMul(Num(100), QDiv(Carried(bs_row, TotalLiabNames),
                             Carried(bs_row, TotalAssetsNames)))
    /\ Record.current_ratio =
         QDiv(Carried(bs_row, CurrentAssetsNames), Carried(bs_row, CurrentLiabNames))
    /\ Record.quick_ratio =
         QDiv(QSub(Carried(bs_row, CurrentAssetsNames), inventory),
              Carried(bs_row, CurrentLiabNames))

\* C9 as stated: for every latest balance-sheet row carrying the four
\* columns, in any column order and next to any other columns, the record has
\* debt_ratio = 100 * liabilities / assets, current_ratio = current assets /
\* current liabilities, quick_ratio = (current assets - inventory) / current
\* liabilities.
C9_RatiosInAnyColumnOrder == C9_Case => C9_Ratios

\* every quantity's column is the first one its keyword list can take (for
\* the inventory: or no column can be taken)
C9_FirstMatchIsMeant ==
  /\ FirstTakerIs(bs_row, KW_total_assets, TotalAssetsNames)
  /\ FirstTakerIs(bs_row, KW_total_liab, TotalLiabNames)
  /\ FirstTakerIs(bs_row, KW_current_assets, CurrentAssetsNames)
  /\ FirstTakerIs(bs_row, KW_current_liab, CurrentLiabNames)
  /\ \/ Takers(bs_row, KW_inventory) = {}
     \/ FirstTakerIs(bs_row, KW_inventory, InventoryNames)

\* C9 amended: the ratios are those of the carried columns when each of
\* these columns precedes every other column whose name contains one of its
\* keywords and whose cell safe_float reads a number in (the first match
\* wins).
C9_RatiosWhenFirstMatchIsMeant ==
  (C9_Case /\ C9_FirstMatchIsMeant) => C9_Ratios

\* a row where the totals precede the subtotals whose names contain theirs,
\* giving 62.5, 2.5 and 2
C9_Witness ==
  /\ C9_Case /\ C9_FirstMatchIsMeant
  /\ Cardinality(Takers(bs_row, KW_total_liab)) > 1
  /\ Record.debt_ratio = Q(125, 2)
  /\ Record.current_ratio = Q(5, 2)
  /\ Record.quick_ratio = Num(2)

\* C10: in every record the scorer finalized, valuation_score is
\* min(10, 6 + (1 if pe # 0 and pe < 10) + (0.5 if pb # 0 and pb < 1.2)),
\* fundamental_score is min(10, 6 + (1 if roe > 10)), growth_score is
\* min(10, 6 + (1 if growth > 0.1)), and each lies between 6 and 10.
C10_Scores ==
  Scored =>
    /\ Record.valuation_score =
         Min10(QAdd(Num(6),
                    QAdd(IF Record.pe.n # 0 /\ QLt(Record.pe, Num(10))
                         THEN Num(1) ELSE Num(0),
                         IF Record.pb.n # 0 /\ BelowLiteral(Record.pb, Q(12, 10))
                         THEN Q(1, 2) ELSE Num(0))))
    /\ Record.fundamental_score =
         Min10(QAdd(Num(6), IF QLt(Num(10), Record.roe) THEN Num(1) ELSE Num(0)))
    /\ Record.growth_score =
         Min10(QAdd(Num(6), IF AboveLiteral(Record.growth, Q(1, 10))
                            THEN Num(1) ELSE Num(0)))
    /\ \A s \in {"valuation_score", "fundamental_score", "growth_score"} :
         ~QLt(Record[s], Num(6)) /\ ~QLt(Num(10), Record[s])

\* a scored record with both valuation bonuses, the roe bonus and the growth
\* bonus
C10_Witness ==
  /\ Scored
  /\ Record.pe = Num(8) /\ Record.pb = Num(1)
  /\ Record.valuation_score = Q(15, 2)
  /\ Record.fundamental_score = Num(7)
  /\ Record.growth_score = Num(7)

\* a scored record whose pe and pb are still 0 earns no valuation bonus
C10_WitnessUnresolved ==
  /\ Scored
  /\ Record.pe = Num(0) /\ Record.pb = Num(0)
  /\ Record.valuation_score = Num(6)

\* what the statements give for a metric when the abstract table has none:
\* the derived value where it can be computed, else the field's 0
DerivedOrZero(can, derived) ==
  IF can /\ ~IsNone(derived) THEN derived ELSE Num(0)

\* the net profit of the latest income-statement row
NetProfit == extract_metric(is_row, KW_net_profit)

\* the metric of the record is the abstract table's value when there is one,
\* and the value derived from the statements only when there is none
DirectFirst(field, keywords, can, derived) ==
  LET direct == extract_from_abstract(df, keywords)
  IN  Record[field] = IF ~IsNone(direct) THEN direct
                      ELSE DerivedOrZero(can, derived)

\* C11: for each of roe, roa, gross_margin, net_margin and growth, the record
\* printed after the statement resolution holds exactly the value of the abstract
\* table when the lookup there yields one, and the value derived from the
\* balance sheet and the income statement (or 0 when that cannot be computed)
\* only when the lookup yields none.
C11_AbstractValueFirst ==
  (Emitted /\ StatementsResolved) =>
    /\ DirectFirst("roe", KW_roe, is_row # NoRow,
         Percent(safe_div(NetProfit, extract_metric(bs_row, KW_parent_equity))))
    /\ DirectFirst("roa", KW_roa, is_row # NoRow,
         Percent(safe_div(NetProfit, extract_metric(bs_row, KW_total_assets))))
    /\ DirectFirst("gross_margin", KW_gross_margin,
         /\ is_row # NoRow
         /\ Truthy(revenue_val)
         /\ ~IsNone(extract_metric(is_row, KW_operate_cost)),
         Percent(safe_div(QSub(revenue_val,
                               extract_metric(is_row, KW_operate_cost)),
                          revenue_val)))
    /\ DirectFirst("net_margin", KW_net_margin,
         is_row # NoRow /\ Truthy(revenue_val),
         Percent(safe_div(NetProfit, revenue_val)))
    /\ DirectFirst("growth", KW_growth, is_row # NoRow, IncomeGrowth(is_row))

\* the abstract table gave roe 12, roa 5, the margins 40 and 20 and the growth
\* 12.5 while the statements would have given roe 12.5, roa 3.125, margins
\* 37.5 and 1.5625 and growth 0.125: the record holds the abstract table's
\* values
C11_Witness ==
  /\ Scored /\ StatementsResolved
  /\ extract_from_abstract(df, KW_roe) = Num(12)
  /\ extract_from_abstract(df, KW_growth) = Q(25, 2)
  /\ Percent(safe_div(NetProfit, extract_metric(bs_row, KW_parent_equity)))
       = Q(25, 2)
  /\ Percent(safe_div(NetProfit, extract_metric(bs_row, KW_total_assets)))
       = Q(25, 8)
  /\ Percent(safe_div(NetProfit, revenue_val)) = Q(25, 16)
  /\ IncomeGrowth(is_row) = Q(1, 8)
  /\ Record.roe = Num(12) /\ Record.roa = Num(5)
  /\ Record.gross_margin = Num(40) /\ Record.net_margin = Num(20)
  /\ Record.growth = Q(25, 2)

\* the abstract table gave none of the five: the record holds the values
\* derived from the statements
C11_WitnessDerived ==
  /\ Scored /\ StatementsResolved
  /\ IsNone(extract_from_abstract(df, KW_roe))
  /\ IsNone(extract_from_abstract(df, KW_growth))
  /\ Record.roe = Q(25, 2) /\ Record.roa = Q(25, 8)
  /\ Record.gross_margin = Q(75, 2) /\ Record.net_margin = Q(25, 16)
  /\ Record.growth = Q(1, 8)

\* one of the four statement fetches raised
FetchRaised == \E i \in 1..Len(Fetches) : Raised(Fetches[i])

\* C12: when one of the four statement fetches raises (the cash-flow fetch
\* included, and whatever was fetched before it), every statement-derived
\* field (roe, roa, gross_margin, net_margin, growth, debt_ratio,
\* current_ratio, quick_ratio, ps) is 0 from then on and in the record that
\* is printed.
C12_AllOrNothing ==
  FetchRaised =>
    /\ \A f \in StatementFields : result[f] = Num(0)
    /\ Emitted => \A f \in StatementFields : Record[f] = Num(0)

\* the cash-flow fetch raised after the three other tables were fetched, the
\* abstract table among them with an roe of 12 and a market cap; the live
\* quote gave a market cap, and the printed record has roe and ps at 0
C12_Witness ==
  /\ Scored
  /\ Raised("cash_flow")
  /\ extract_from_abstract(df, KW_roe) = Num(12)
  /\ ~IsNone(extract_from_abstract(df, KW_market_cap))
  /\ Truthy(Record.market_cap)
  /\ Record.roe = Num(0) /\ Record.ps = Num(0) /\ Record.growth = Num(0)
  /\ Record.error # ""

\* pe, pb and market_cap are all set
AllThreeSet(r) == r.pe.n # 0 /\ r.pb.n # 0 /\ r.market_cap.n # 0

\* the step is an HTTP quote lookup
QuoteStep ==
  /\ Len(calls') = Len(calls) + 1
  /\ calls'[Len(calls')].call = "quote"

\* the snapshot step is over and gave no row: the fetch raised, the snapshot
\* was empty, or it had no row for the symbol (the step is taken only with
\* one of pe, pb, market_cap at 0, and then leaves the record as it was)
SnapshotGaveNothing ==
  /\ Called("spot")
  /\ rec = NoRow
  /\ pc \in {"late_ps", "score", "done"}

\* the part of C13 on when the HTTP quote is not made: it is looked up at
\* most once, only after the snapshot step, and never when pe, pb and
\* market_cap are all set
C13_QuoteOnlyWhenNeeded ==
  [][QuoteStep =>
       /\ Called("spot")
       /\ ~Called("quote")
       /\ ~AllThreeSet(result)]_vars

\* C13: the HTTP quote is looked up at most once, only after the snapshot
\* step and never when pe, pb and market_cap are all set after it; and it is
\* looked up whenever the snapshot step gave nothing (it raised, was empty or
\* had no row for the symbol), one of the three being then still 0.
C13_QuoteEscalation ==
  /\ C13_QuoteOnlyWhenNeeded
  /\ [](SnapshotGaveNothing => Called("quote"))

====
